---- MODULE Spec2Model ----
(***************************************************************************)
(* Pay2Go: transaction lifecycle, idempotent creation and refund           *)
(* consistency.  The use cases (CreateTransactionUseCase,                  *)
(* ProcessPaymentUseCase, RetryFailedPaymentUseCase,                       *)
(* RefundTransactionUseCase) run as concurrent callers against one         *)
(* PostgreSQL store.  Every repository call is one autocommit statement    *)
(* (database/sql ExecContext, as in partner_repository.go), so a caller    *)
(* holds a private copy of the entity between its store calls and the     *)
(* store sees whole-row overwrites.                                        *)
(***************************************************************************)
EXTENDS Integers, Sequences, FiniteSets, TLC

VARIABLES
    partners,       \* partners table: partner id -> [isActive]
    seedStatus,     \* status the seed transaction had before the requests
    transactions,   \* transactions table: transaction id -> row
    refunds,        \* refunds table: refund id -> row
    op,             \* caller -> the use case it executes
    pc,             \* caller -> position inside Execute
    req,            \* caller -> input of the request
    txn,            \* caller -> its in-memory *entities.Transaction
    refund,         \* caller -> its in-memory *entities.Refund
    totalRefunded,  \* caller -> value read at refund step 7
    result,         \* caller -> what Execute returned
    faulted,        \* caller -> the dependencies (store, gateway) that failed under it
    gwPayments,     \* number of PaymentGateway.ProcessPayment invocations
    gwPaid,         \* number of ProcessPayment invocations that succeeded
    gwRefunded,     \* sum of the amounts ProcessRefund accepted
    completions,    \* number of times the persisted status entered completed
    ent,            \* an entity under direct test (domain-level calls)
    entErr,         \* error returned by the last direct entity call
    storeFaults,    \* whether store calls may fail in this behaviour
    calls,          \* number of requests begun after the initial ones
    retriesAccepted,\* retries accepted by the requests that came before
    atBegin,        \* the store as the latest request found it
    auditLogger,    \* "nil" or "present": the AuditLogger the use cases got
    auditCalls,     \* caller -> what happened at the audit points of its request
    moneyArgs,      \* inputs of the direct calls on Money
    moneyOut        \* call on Money -> what it returned

vars == <<partners, seedStatus, transactions, refunds, op, pc, req, txn, refund,
          totalRefunded, result, faulted, gwPayments, gwPaid, gwRefunded,
          completions, ent, entErr, storeFaults, calls, retriesAccepted,
          atBegin, auditLogger, auditCalls, moneyArgs, moneyOut>>

\* what the steps of a request leave alone: changed only when a caller
\* begins its next request
sessionVars == <<calls, retriesAccepted, atBegin>>
fixedVars  == <<partners, seedStatus, storeFaults, auditLogger, sessionVars>>
storeVars  == <<fixedVars, transactions, refunds>>
gwVars     == <<gwPayments, gwPaid, gwRefunded>>
moneyVars  == <<moneyArgs, moneyOut>>
entVars    == <<ent, entErr, moneyVars>>

----------------------------------------------------------------------------
(* Bounds and program constants *)

NumCallers == 2

Callers == 1..NumCallers

SeedTxnId == 0

MaxRetries == 3

MinAmount == 1

MaxAmount == 10000000

RefundWindowSeconds == 7776000

Partners == {"p1", "p2"}

ActiveCurrencies == {"USD", "EUR", "GBP", "JPY", "THB"}

TransactionStatuses ==
    {"pending", "processing", "completed", "failed", "cancelled",
     "refunded", "partially_refunded"}

RefundStatuses == {"pending", "processing", "completed", "failed"}

\* what the payment collaborator can answer
GatewayErrors == {"card_declined"}

ProviderIds == {"prov-1"}

----------------------------------------------------------------------------
(* Money (valueobjects.Money) *)

NewMoneyOk(amount, currency) ==
    /\ amount >= MinAmount
    /\ amount <= MaxAmount
    /\ currency \in ActiveCurrencies

NoMoney == [amount |-> 0, currency |-> ""]

\* NewMoney without the upper limit
NewMoney_NoMaximum(amount, currency) ==
    IF amount < MinAmount
    THEN [err |-> "amount_below_minimum", m |-> NoMoney]
    ELSE IF currency \notin ActiveCurrencies
    THEN [err |-> "invalid_currency", m |-> NoMoney]
    ELSE [err |-> "", m |-> [amount |-> amount, currency |-> currency]]

\* NewMoney: [err, m], m the Money built or NoMoney (nil) with an error
NewMoney(amount, currency) ==
    IF amount < MinAmount
    THEN [err |-> "amount_below_minimum", m |-> NoMoney]
    ELSE IF amount > MaxAmount
    THEN [err |-> "amount_above_maximum", m |-> NoMoney]
    ELSE IF currency \notin ActiveCurrencies
    THEN [err |-> "invalid_currency", m |-> NoMoney]
    ELSE [err |-> "", m |-> [amount |-> amount, currency |-> currency]]

\* Add that takes the currency of the receiver
MoneyAdd_ReceiverCurrency(a, b) ==
    [err |-> "",
     m |-> [amount |-> a.amount + b.amount, currency |-> a.currency]]

\* Money.Add: [err, m].  The sum is either built as it is or passed through
\* NewMoney again (moneyArgs.checked), which rejects a sum above the maximum.
MoneyAdd(a, b) ==
    IF a.currency # b.currency
    THEN [err |-> "currency_mismatch", m |-> NoMoney]
    ELSE IF moneyArgs.checked
    THEN NewMoney(a.amount + b.amount, a.currency)
    ELSE [err |-> "",
          m |-> [amount |-> a.amount + b.amount, currency |-> a.currency]]

\* Add on the result of an earlier Add: its failure is the failure of the
\* whole expression
MoneyAddTo(x, b) == IF x.err # "" THEN x ELSE MoneyAdd(x.m, b)

MoneyAddOnto(a, y) == IF y.err # "" THEN y ELSE MoneyAdd(a, y.m)

\* Subtract that answers zero where the difference is negative
MoneySubtract_Clamped(a, b) ==
    IF a.currency # b.currency
    THEN [err |-> "currency_mismatch", m |-> NoMoney]
    ELSE [err |-> "",
          m |-> [amount |-> IF a.amount < b.amount THEN 0
                            ELSE a.amount - b.amount,
                 currency |-> a.currency]]

\* Money.Subtract: [err, m].  A negative difference is an error with no
\* value (TestMoney_Subtract_ResultsInNegative); any other difference is
\* built as it is or passed through NewMoney again (moneyArgs.checked),
\* which rejects the difference zero.
MoneySubtract(a, b) ==
    IF a.currency # b.currency
    THEN [err |-> "currency_mismatch", m |-> NoMoney]
    ELSE IF a.amount - b.amount < 0
    THEN [err |-> "negative_result", m |-> NoMoney]
    ELSE IF moneyArgs.checked
    THEN NewMoney(a.amount - b.amount, a.currency)
    ELSE [err |-> "",
          m |-> [amount |-> a.amount - b.amount, currency |-> a.currency]]

\* Equals that looks at the amounts only
MoneyEquals_AmountOnly(a, b) == a.amount = b.amount

\* Money.Equals
MoneyEquals(a, b) == a.amount = b.amount /\ a.currency = b.currency

\* IsGreaterThan returns a bare bool.  For operands of one currency it is the
\* comparison of the amounts; for operands of different currencies the
\* implementation either compares the amounts or answers false.
IsGreaterThanOutcomes(a, b) ==
    IF a.currency = b.currency
    THEN {a.amount > b.amount}
    ELSE IF a.amount > b.amount THEN {TRUE, FALSE} ELSE {FALSE}

----------------------------------------------------------------------------
(* Transaction entity (entities.Transaction) *)

NoTransaction ==
    [id |-> -1, partnerId |-> "", idempotencyKey |-> "", amount |-> 0,
     currency |-> "", status |-> "none", providerTransactionId |-> "",
     errorCode |-> "", errorMessage |-> "", retryCount |-> 0,
     createdAge |-> 0, completedAge |-> 0]

NewTransaction(id, partnerId, key, amount, currency) ==
    [NoTransaction EXCEPT !.id = id, !.partnerId = partnerId,
                          !.idempotencyKey = key, !.amount = amount,
                          !.currency = currency, !.status = "pending"]

IsPending(t) == t.status = "pending"

IsFailed(t) == t.status = "failed"

\* each Mark* returns [err, t]: err = "" on success, t the entity afterwards
TxnMarkAsProcessing(t) ==
    IF t.status \in {"pending", "failed"}
    THEN [err |-> "", t |-> [t EXCEPT !.status = "processing"]]
    ELSE [err |-> "invalid_state_transition", t |-> t]

\* MarkAsCompleted without its state guard
TxnMarkAsCompleted_Unguarded(t, providerId) ==
    [err |-> "",
     t |-> [t EXCEPT !.status = "completed",
                     !.providerTransactionId = providerId,
                     !.errorCode = "", !.errorMessage = "",
                     !.completedAge = 0]]

TxnMarkAsCompleted(t, providerId) ==
    IF t.status # "processing"
    THEN [err |-> "invalid_state_transition", t |-> t]
    ELSE [err |-> "",
          t |-> [t EXCEPT !.status = "completed",
                          !.providerTransactionId = providerId,
                          !.errorCode = "", !.errorMessage = "",
                          !.completedAge = 0]]

TxnMarkAsFailed(t, code, message) ==
    IF t.status # "processing"
    THEN [err |-> "invalid_state_transition", t |-> t]
    ELSE [err |-> "",
          t |-> [t EXCEPT !.status = "failed", !.errorCode = code,
                          !.errorMessage = message]]

CanRetry(t) == t.retryCount < MaxRetries

IncrementRetryCount(t) ==
    IF CanRetry(t)
    THEN [err |-> "", t |-> [t EXCEPT !.retryCount = @ + 1]]
    ELSE [err |-> "max_retries_exceeded", t |-> t]

MarkAsRefunded(t, isPartial) ==
    IF t.status = "completed"
    THEN [err |-> "",
          t |-> [t EXCEPT !.status =
                     IF isPartial THEN "partially_refunded" ELSE "refunded"]]
    ELSE IF t.status = "partially_refunded" /\ ~isPartial
    THEN [err |-> "", t |-> [t EXCEPT !.status = "refunded"]]
    ELSE [err |-> "invalid_state_transition", t |-> t]

IsRefundable(t) ==
    /\ t.status \in {"completed", "partially_refunded"}
    /\ t.completedAge <= RefundWindowSeconds

----------------------------------------------------------------------------
(* Refund entity (entities.Refund) *)

NoRefund ==
    [id |-> -1, transactionId |-> -1, amount |-> 0, currency |-> "",
     reason |-> "", status |-> "none", providerRefundId |-> "",
     errorCode |-> "", errorMessage |-> "", processed |-> FALSE]

\* NewRefund: [err, r]
NewRefund(id, transactionId, amount, currency, reason) ==
    IF transactionId < 0
    THEN [err |-> "validation:transaction_id", r |-> NoRefund]
    ELSE IF reason = ""
    THEN [err |-> "validation:reason", r |-> NoRefund]
    ELSE IF currency \notin ActiveCurrencies
    THEN [err |-> "invalid_currency", r |-> NoRefund]
    ELSE [err |-> "",
          r |-> [NoRefund EXCEPT !.id = id, !.transactionId = transactionId,
                                 !.amount = amount, !.currency = currency,
                                 !.reason = reason, !.status = "pending"]]

RefundMarkAsProcessing(r) ==
    IF r.status # "pending"
    THEN [err |-> "invalid_state_transition", r |-> r]
    ELSE [err |-> "", r |-> [r EXCEPT !.status = "processing"]]

\* MarkAsCompleted that leaves ProcessedAt unset
RefundMarkAsCompleted_NoProcessedAt(r, providerRefundId) ==
    IF r.status # "processing"
    THEN [err |-> "invalid_state_transition", r |-> r]
    ELSE [err |-> "",
          r |-> [r EXCEPT !.status = "completed",
                          !.providerRefundId = providerRefundId,
                          !.errorCode = "", !.errorMessage = ""]]

RefundMarkAsCompleted(r, providerRefundId) ==
    IF r.status # "processing"
    THEN [err |-> "invalid_state_transition", r |-> r]
    ELSE [err |-> "",
          r |-> [r EXCEPT !.status = "completed",
                          !.providerRefundId = providerRefundId,
                          !.processed = TRUE,
                          !.errorCode = "", !.errorMessage = ""]]

RefundMarkAsFailed(r, code, message) ==
    IF r.status # "processing" /\ r.status # "pending"
    THEN [err |-> "invalid_state_transition", r |-> r]
    ELSE [err |-> "",
          r |-> [r EXCEPT !.status = "failed", !.errorCode = code,
                          !.errorMessage = message]]

----------------------------------------------------------------------------
(* The store *)

RECURSIVE SumAmounts(_, _)
SumAmounts(rs, ids) ==
    IF ids = {} THEN 0
    ELSE LET i == CHOOSE x \in ids : TRUE
         IN  rs[i].amount + SumAmounts(rs, ids \ {i})

CompletedRefundIds(rs, transactionId) ==
    {i \in DOMAIN rs : rs[i].transactionId = transactionId
                       /\ rs[i].status = "completed"}

\* RefundRepository.GetTotalRefundedAmount: sum of the completed refunds
GetTotalRefundedAmount(rs, transactionId) ==
    SumAmounts(rs, CompletedRefundIds(rs, transactionId))

\* trigger validate_refund_amount (BEFORE INSERT OR UPDATE ON refunds):
\* TRUE when it raises 'Refund amount exceeds transaction amount'
validate_refund_amount(new, rs, ts) ==
    LET transaction_amount == ts[new.transactionId].amount
        total_refunded ==
            SumAmounts(rs, CompletedRefundIds(rs, new.transactionId) \ {new.id})
    IN  (total_refunded + new.amount) > transaction_amount

\* the table without the constraint
unique_partner_idempotency_Absent(t, ts) == FALSE

\* constraint unique_partner_idempotency UNIQUE(partner_id, idempotency_key):
\* TRUE when inserting t violates it
unique_partner_idempotency(t, ts) ==
    \E i \in DOMAIN ts : /\ ts[i].partnerId = t.partnerId
                         /\ ts[i].idempotencyKey = t.idempotencyKey

\* TransactionRepository.GetByIdempotencyKey: the row or NoTransaction
GetByIdempotencyKey(ts, partnerId, key) ==
    LET hits == {i \in DOMAIN ts : /\ ts[i].partnerId = partnerId
                                   /\ ts[i].idempotencyKey = key}
    IN  IF hits = {} THEN NoTransaction ELSE ts[CHOOSE i \in hits : TRUE]

\* writing a row: the table with that id bound to the row
PutRow(table, row) ==
    [i \in DOMAIN table \cup {row.id} |-> IF i = row.id THEN row ELSE table[i]]

\* a store call either goes through or fails with a dependency error
StoreOutcomes == IF storeFaults THEN {"ok", "unavailable"} ELSE {"ok"}

----------------------------------------------------------------------------
(* Callers *)

NoResult == [status |-> "none", err |-> "", id |-> -1]

Ok(id) == [status |-> "ok", err |-> "", id |-> id]

Err(e) == [status |-> "err", err |-> e, id |-> -1]

NoRequest ==
    [transactionId |-> -1, partnerId |-> "", idempotencyKey |-> "",
     amount |-> 0, currency |-> "", reason |-> ""]

\* uuid.New() of the refund built by caller c's current request
RefundId(c) == c + NumCallers * calls

\* caller c leaves Execute with result r
Return(c, r) ==
    /\ pc' = [pc EXCEPT ![c] = "done"]
    /\ result' = [result EXCEPT ![c] = r]

\* dependency d ("store" or "gateway") failed under caller c
Fault(c, d) == faulted' = [faulted EXCEPT ![c] = @ \cup {d}]

\* what an audit point can meet: no logger (the nil check skips the call),
\* or a logger whose LogAction returns nil or an error
AuditOutcomes ==
    IF auditLogger = "nil" THEN {"absent"} ELSE {"ok", "error"}

\* if uc.auditLogger != nil { _ = uc.auditLogger.LogAction(...) }
LogAction(c) ==
    \E o \in AuditOutcomes :
        auditCalls' = [auditCalls EXCEPT ![c] = Append(@, o)]

----------------------------------------------------------------------------
(* RefundTransactionUseCase.Execute *)

\* steps 2-6 with the authorization after the refundability and window checks
RefundValidate_AuthorizationLate(t, r, greater) ==
    IF ~IsRefundable(t) THEN "ErrRefundNotAllowed"
    ELSE IF t.createdAge > RefundWindowSeconds THEN "ErrRefundWindowExpired"
    ELSE IF t.partnerId # r.partnerId THEN "ErrUnauthorizedOperation"
    ELSE IF ~NewMoneyOk(r.amount, r.currency) THEN "invalid refund amount"
    ELSE IF greater THEN "ErrRefundAmountExceeded"
    ELSE ""

\* steps 2-6 with step 3 (refundability) left out
RefundValidate_NoRefundableCheck(t, r, greater) ==
    IF t.partnerId # r.partnerId THEN "ErrUnauthorizedOperation"
    ELSE IF t.createdAge > RefundWindowSeconds THEN "ErrRefundWindowExpired"
    ELSE IF ~NewMoneyOk(r.amount, r.currency) THEN "invalid refund amount"
    ELSE IF greater THEN "ErrRefundAmountExceeded"
    ELSE ""

\* Steps 2-6: authorization, refundability, window, refund money, amount
\* against the transaction amount
RefundValidate(t, r, greater) ==
    IF t.partnerId # r.partnerId THEN "ErrUnauthorizedOperation"
    ELSE IF ~IsRefundable(t) THEN "ErrRefundNotAllowed"
    ELSE IF t.createdAge > RefundWindowSeconds THEN "ErrRefundWindowExpired"
    ELSE IF ~NewMoneyOk(r.amount, r.currency) THEN "invalid refund amount"
    ELSE IF greater THEN "ErrRefundAmountExceeded"
    ELSE ""

Refund_GetTransaction(c) ==
    /\ op[c] = "refund" /\ pc[c] = "r_get"
    /\ \E so \in StoreOutcomes :
         IF so # "ok"
         THEN /\ Return(c, Err("failed to get transaction")) /\ Fault(c, "store")
              /\ UNCHANGED txn
         ELSE IF req[c].transactionId \notin DOMAIN transactions
         THEN /\ Return(c, Err("ErrTransactionNotFound"))
              /\ UNCHANGED <<txn, faulted>>
         ELSE LET t == transactions[req[c].transactionId] IN
              \E greater \in IsGreaterThanOutcomes(req[c], t) :
                LET e == RefundValidate(t, req[c], greater) IN
                IF e # ""
                THEN /\ Return(c, Err(e)) /\ UNCHANGED <<txn, faulted>>
                ELSE /\ txn' = [txn EXCEPT ![c] = t]
                     /\ pc' = [pc EXCEPT ![c] = "r_total"]
                     /\ UNCHANGED <<result, faulted>>
    /\ UNCHANGED <<storeVars, gwVars, entVars, auditCalls, op, req, refund,
                   totalRefunded, completions>>

\* steps 7-9 without the check of the refunded total
\* steps 7-9 with the record inserted before the check of the total
Refund_CheckTotal_CreateFirst(c) ==
    /\ op[c] = "refund" /\ pc[c] = "r_total"
    /\ LET total == GetTotalRefundedAmount(refunds, txn[c].id)
           nr == NewRefund(RefundId(c), txn[c].id, req[c].amount,
                           req[c].currency, req[c].reason)
       IN
       IF total + req[c].amount > txn[c].amount
       THEN /\ refunds' = PutRow(refunds, nr.r)
            /\ Return(c, Err("ErrRefundAmountExceeded"))
            /\ UNCHANGED <<refund, totalRefunded>>
       ELSE IF req[c].currency # txn[c].currency
       THEN /\ Return(c, Err("validation:currency"))
            /\ UNCHANGED <<refunds, refund, totalRefunded>>
       ELSE IF nr.err # ""
       THEN /\ Return(c, Err("failed to create refund entity"))
            /\ UNCHANGED <<refunds, refund, totalRefunded>>
       ELSE /\ refund' = [refund EXCEPT ![c] = nr.r]
            /\ totalRefunded' = [totalRefunded EXCEPT ![c] = total]
            /\ pc' = [pc EXCEPT ![c] = "r_create"]
            /\ UNCHANGED <<refunds, result>>
    /\ UNCHANGED <<fixedVars, transactions, gwVars, entVars, auditCalls, op, req, txn,
                   faulted, completions>>

Refund_CheckTotal_NoTotalCheck(c) ==
    /\ op[c] = "refund" /\ pc[c] = "r_total"
    /\ \E so \in StoreOutcomes :
         IF so # "ok"
         THEN /\ Return(c, Err("failed to get total refunded")) /\ Fault(c, "store")
              /\ UNCHANGED <<refund, totalRefunded>>
         ELSE LET total == GetTotalRefundedAmount(refunds, txn[c].id)
                  nr == NewRefund(RefundId(c), txn[c].id, req[c].amount,
                                  req[c].currency, req[c].reason)
              IN
              IF req[c].currency # txn[c].currency
              THEN /\ Return(c, Err("validation:currency"))
                   /\ UNCHANGED <<refund, totalRefunded, faulted>>
              ELSE IF nr.err # ""
              THEN /\ Return(c, Err("failed to create refund entity"))
                   /\ UNCHANGED <<refund, totalRefunded, faulted>>
              ELSE /\ refund' = [refund EXCEPT ![c] = nr.r]
                   /\ totalRefunded' = [totalRefunded EXCEPT ![c] = total]
                   /\ pc' = [pc EXCEPT ![c] = "r_create"]
                   /\ UNCHANGED <<result, faulted>>
    /\ UNCHANGED <<storeVars, gwVars, entVars, auditCalls, op, req, txn, completions>>

\* Steps 7-9: read the refunded total, check it, currency, NewRefund
Refund_CheckTotal(c) ==
    /\ op[c] = "refund" /\ pc[c] = "r_total"
    /\ \E so \in StoreOutcomes :
         IF so # "ok"
         THEN /\ Return(c, Err("failed to get total refunded")) /\ Fault(c, "store")
              /\ UNCHANGED <<refund, totalRefunded>>
         ELSE LET total == GetTotalRefundedAmount(refunds, txn[c].id)
                  nr == NewRefund(RefundId(c), txn[c].id, req[c].amount,
                                  req[c].currency, req[c].reason)
              IN
              IF total + req[c].amount > txn[c].amount
              THEN /\ Return(c, Err("ErrRefundAmountExceeded"))
                   /\ UNCHANGED <<refund, totalRefunded, faulted>>
              ELSE IF req[c].currency # txn[c].currency
              THEN /\ Return(c, Err("validation:currency"))
                   /\ UNCHANGED <<refund, totalRefunded, faulted>>
              ELSE IF nr.err # ""
              THEN /\ Return(c, Err("failed to create refund entity"))
                   /\ UNCHANGED <<refund, totalRefunded, faulted>>
              ELSE /\ refund' = [refund EXCEPT ![c] = nr.r]
                   /\ totalRefunded' = [totalRefunded EXCEPT ![c] = total]
                   /\ pc' = [pc EXCEPT ![c] = "r_create"]
                   /\ UNCHANGED <<result, faulted>>
    /\ UNCHANGED <<storeVars, gwVars, entVars, auditCalls, op, req, txn, completions>>

\* Steps 10-11: INSERT the pending refund, MarkAsProcessing in memory
Refund_Create(c) ==
    /\ op[c] = "refund" /\ pc[c] = "r_create"
    /\ \E so \in StoreOutcomes :
         IF so # "ok"
         THEN /\ Return(c, Err("failed to create refund")) /\ Fault(c, "store")
              /\ UNCHANGED <<refunds, refund>>
         ELSE IF validate_refund_amount(refund[c], refunds, transactions)
         THEN /\ Return(c, Err("failed to create refund"))
              /\ UNCHANGED <<refunds, refund, faulted>>
         ELSE LET m == RefundMarkAsProcessing(refund[c]) IN
              /\ refunds' = PutRow(refunds, refund[c])
              /\ IF m.err # ""
                 THEN /\ Return(c, Err("failed to mark refund as processing"))
                      /\ UNCHANGED refund
                 ELSE /\ refund' = [refund EXCEPT ![c] = m.r]
                      /\ pc' = [pc EXCEPT ![c] = "r_processing"]
                      /\ UNCHANGED result
              /\ UNCHANGED faulted
    /\ UNCHANGED <<fixedVars, transactions, gwVars, entVars, auditCalls, op, req, txn,
                   totalRefunded, completions>>

\* Step 11: UPDATE the refund to processing
Refund_UpdateProcessing(c) ==
    /\ op[c] = "refund" /\ pc[c] = "r_processing"
    /\ \E so \in StoreOutcomes :
         IF so # "ok"
         THEN /\ Return(c, Err("failed to update refund")) /\ Fault(c, "store")
              /\ UNCHANGED refunds
         ELSE IF validate_refund_amount(refund[c], refunds, transactions)
         THEN /\ Return(c, Err("failed to update refund"))
              /\ UNCHANGED <<refunds, faulted>>
         ELSE /\ refunds' = PutRow(refunds, refund[c])
              /\ pc' = [pc EXCEPT ![c] = "r_gateway"]
              /\ UNCHANGED <<result, faulted>>
    /\ UNCHANGED <<fixedVars, transactions, gwVars, entVars, auditCalls, op, req, txn,
                   refund, totalRefunded, completions>>

\* Step 12: PaymentGateway.ProcessRefund, then MarkAsCompleted or
\* MarkAsFailed in memory
Refund_Gateway(c) ==
    /\ op[c] = "refund" /\ pc[c] = "r_gateway"
    /\ \/ \E providerRefundID \in ProviderIds :
            LET m == RefundMarkAsCompleted(refund[c], providerRefundID) IN
            /\ gwRefunded' = gwRefunded + refund[c].amount
            /\ IF m.err # ""
               THEN /\ Return(c, Err("failed to mark refund as completed"))
                    /\ UNCHANGED refund
               ELSE /\ refund' = [refund EXCEPT ![c] = m.r]
                    /\ pc' = [pc EXCEPT ![c] = "r_complete"]
                    /\ UNCHANGED result
            /\ UNCHANGED faulted
       \/ \E e \in GatewayErrors :
            LET m == RefundMarkAsFailed(refund[c], "REFUND_FAILED", e) IN
            /\ refund' = [refund EXCEPT ![c] = m.r]
            /\ pc' = [pc EXCEPT ![c] = "r_failed"]
            /\ Fault(c, "gateway")
            /\ UNCHANGED <<gwRefunded, result>>
    /\ UNCHANGED <<storeVars, gwPayments, gwPaid, entVars, auditCalls, op, req, txn,
                   totalRefunded, completions>>

\* Step 12, gateway failed: UPDATE the refund to failed (the error of the
\* update is dropped), return the gateway's error
Refund_UpdateFailed(c) ==
    /\ op[c] = "refund" /\ pc[c] = "r_failed"
    /\ \E so \in StoreOutcomes :
         IF so # "ok"
         THEN /\ Fault(c, "store") /\ UNCHANGED refunds
         ELSE IF validate_refund_amount(refund[c], refunds, transactions)
         THEN UNCHANGED <<refunds, faulted>>
         ELSE /\ refunds' = PutRow(refunds, refund[c])
              /\ UNCHANGED faulted
    /\ Return(c, Err("refund processing failed"))
    /\ UNCHANGED <<fixedVars, transactions, gwVars, entVars, auditCalls, op, req, txn,
                   refund, totalRefunded, completions>>

\* Step 13: UPDATE the refund to completed.  The statement runs under READ
\* COMMITTED: the BEFORE trigger's SELECT sees the rows committed when it
\* runs, and the row written becomes visible to other statements only at
\* commit.  The two moments are two steps here.  (For the statements that
\* write a status other than completed the written row is read by no
\* other statement's sum, so one step is the same there.)
Refund_CompleteTrigger(c) ==
    /\ op[c] = "refund" /\ pc[c] = "r_complete"
    /\ \E so \in StoreOutcomes :
         IF so # "ok"
         THEN /\ Return(c, Err("failed to update refund")) /\ Fault(c, "store")
         ELSE IF validate_refund_amount(refund[c], refunds, transactions)
         THEN /\ Return(c, Err("failed to update refund"))
              /\ UNCHANGED faulted
         ELSE /\ pc' = [pc EXCEPT ![c] = "r_commit"]
              /\ UNCHANGED <<result, faulted>>
    /\ UNCHANGED <<storeVars, gwVars, entVars, auditCalls, op, req, txn, refund,
                   totalRefunded, completions>>

\* step 14 taking the refund for full only above the transaction amount
Refund_CompleteCommit_StrictFull(c) ==
    /\ op[c] = "refund" /\ pc[c] = "r_commit"
    /\ refunds' = PutRow(refunds, refund[c])
    /\ LET isFullRefund ==
               (totalRefunded[c] + req[c].amount) > txn[c].amount
           m == MarkAsRefunded(txn[c], ~isFullRefund)
       IN  IF m.err # ""
           THEN /\ Return(c, Err("failed to update transaction status"))
                /\ UNCHANGED txn
           ELSE /\ txn' = [txn EXCEPT ![c] = m.t]
                /\ pc' = [pc EXCEPT ![c] = "r_txn"]
                /\ UNCHANGED result
    /\ UNCHANGED <<fixedVars, transactions, gwVars, entVars, auditCalls, op, req, refund,
                   totalRefunded, faulted, completions>>

\* Step 13 commits; step 14 in memory: isFullRefund, MarkAsRefunded
Refund_CompleteCommit(c) ==
    /\ op[c] = "refund" /\ pc[c] = "r_commit"
    /\ refunds' = PutRow(refunds, refund[c])
    /\ LET isFullRefund ==
               (totalRefunded[c] + req[c].amount) >= txn[c].amount
           m == MarkAsRefunded(txn[c], ~isFullRefund)
       IN  IF m.err # ""
           THEN /\ Return(c, Err("failed to update transaction status"))
                /\ UNCHANGED txn
           ELSE /\ txn' = [txn EXCEPT ![c] = m.t]
                /\ pc' = [pc EXCEPT ![c] = "r_txn"]
                /\ UNCHANGED result
    /\ UNCHANGED <<fixedVars, transactions, gwVars, entVars, auditCalls, op, req, refund,
                   totalRefunded, faulted, completions>>

\* TransactionRepository.Update: the whole row is overwritten by the
\* caller's copy
UpdateTransaction(t) ==
    /\ transactions' = PutRow(transactions, t)
    /\ completions' =
         IF t.status = "completed" /\ transactions[t.id].status # "completed"
         THEN completions + 1 ELSE completions

\* Step 14: UPDATE the transaction; step 15 audit log; return the refund
Refund_UpdateTransaction(c) ==
    /\ op[c] = "refund" /\ pc[c] = "r_txn"
    /\ \E so \in StoreOutcomes :
         IF so # "ok"
         THEN /\ Return(c, Err("failed to update transaction")) /\ Fault(c, "store")
              /\ UNCHANGED <<transactions, completions, auditCalls>>
         ELSE /\ UpdateTransaction(txn[c])
              /\ LogAction(c)
              /\ Return(c, Ok(refund[c].id))
              /\ UNCHANGED faulted
    /\ UNCHANGED <<fixedVars, refunds, gwVars, entVars, op, req, txn, refund,
                   totalRefunded>>

RefundStep(c) ==
    \/ Refund_GetTransaction(c)
    \/ Refund_CheckTotal(c)
    \/ Refund_Create(c)
    \/ Refund_UpdateProcessing(c)
    \/ Refund_Gateway(c)
    \/ Refund_UpdateFailed(c)
    \/ Refund_CompleteTrigger(c)
    \/ Refund_CompleteCommit(c)
    \/ Refund_UpdateTransaction(c)

----------------------------------------------------------------------------
(* CreateTransactionUseCase.Execute *)

\* Step 1: the partner exists and is active
Create_ValidatePartner(c) ==
    /\ op[c] = "create" /\ pc[c] = "c_partner"
    /\ IF ~partners[req[c].partnerId].isActive
       THEN Return(c, Err("ErrPartnerInactive"))
       ELSE /\ pc' = [pc EXCEPT ![c] = "c_lookup"]
            /\ UNCHANGED result
    /\ UNCHANGED <<storeVars, gwVars, entVars, auditCalls, op, req, txn, refund,
                   totalRefunded, faulted, completions>>

\* Steps 2-4, the lookup finding nothing: NewMoney, NewTransaction
Create_Build(c) ==
    IF ~NewMoneyOk(req[c].amount, req[c].currency)
    THEN /\ Return(c, Err("invalid amount")) /\ UNCHANGED txn
    ELSE IF req[c].idempotencyKey = ""
    THEN /\ Return(c, Err("validation:idempotency_key")) /\ UNCHANGED txn
    ELSE /\ txn' = [txn EXCEPT ![c] =
                       NewTransaction(c, req[c].partnerId,
                                      req[c].idempotencyKey, req[c].amount,
                                      req[c].currency)]
         /\ pc' = [pc EXCEPT ![c] = "c_insert"]
         /\ UNCHANGED result

\* Step 2: GetByIdempotencyKey (its error is dropped: a failed lookup reads
\* as "no existing transaction"); an existing transaction is returned as is
Create_CheckIdempotency_NoGuard(c) ==
    /\ op[c] = "create" /\ pc[c] = "c_lookup"
    /\ Create_Build(c)
    /\ UNCHANGED <<storeVars, gwVars, entVars, auditCalls, op, req, refund,
                   totalRefunded, faulted, completions>>

Create_CheckIdempotency(c) ==
    /\ op[c] = "create" /\ pc[c] = "c_lookup"
    /\ \E so \in StoreOutcomes :
         LET existing ==
                 IF so = "ok"
                 THEN GetByIdempotencyKey(transactions, req[c].partnerId,
                                          req[c].idempotencyKey)
                 ELSE NoTransaction
         IN  /\ IF so = "ok" THEN UNCHANGED faulted ELSE Fault(c, "store")
             /\ IF existing # NoTransaction
                THEN /\ Return(c, Ok(existing.id)) /\ UNCHANGED txn
                ELSE Create_Build(c)
    /\ UNCHANGED <<storeVars, gwVars, entVars, auditCalls, op, req, refund,
                   totalRefunded, completions>>

\* what Execute returns when TransactionRepository.Create fails: the README
\* elides the handling, so either the error is propagated or the output of
\* the transaction built in memory is returned
CreateFailureResults(c) == {Err("failed to create transaction"), Ok(c)}

\* Step 5: INSERT; step 6 audit log
Create_Persist(c) ==
    /\ op[c] = "create" /\ pc[c] = "c_insert"
    /\ \E so \in StoreOutcomes :
         IF so # "ok"
         THEN /\ \E r \in CreateFailureResults(c) : Return(c, r)
              /\ Fault(c, "store") /\ UNCHANGED transactions
         ELSE IF unique_partner_idempotency(txn[c], transactions)
         THEN /\ \E r \in CreateFailureResults(c) : Return(c, r)
              /\ UNCHANGED <<transactions, faulted>>
         ELSE /\ transactions' = PutRow(transactions, txn[c])
              /\ Return(c, Ok(c))
              /\ UNCHANGED faulted
    /\ UNCHANGED <<fixedVars, refunds, gwVars, entVars, auditCalls, op, req, txn, refund,
                   totalRefunded, completions>>

CreateStep(c) ==
    \/ Create_ValidatePartner(c)
    \/ Create_CheckIdempotency(c)
    \/ Create_Persist(c)

----------------------------------------------------------------------------
(* ProcessPaymentUseCase.Execute *)

\* Steps 1-3: load the transaction, validate its state, MarkAsProcessing in
\* memory
Process_GetTransaction(c) ==
    /\ op[c] \in {"process", "retry"} /\ pc[c] = "p_get"
    /\ \E so \in StoreOutcomes :
         IF so # "ok"
         THEN /\ Return(c, Err("failed to get transaction"))
              /\ Fault(c, "store") /\ UNCHANGED txn
         ELSE IF req[c].transactionId \notin DOMAIN transactions
         THEN /\ Return(c, Err("ErrTransactionNotFound"))
              /\ UNCHANGED <<txn, faulted>>
         ELSE LET t == transactions[req[c].transactionId]
                  m == TxnMarkAsProcessing(t)
              IN  IF ~IsPending(t) /\ ~IsFailed(t)
                  THEN /\ Return(c, Err("invalid_state"))
                       /\ UNCHANGED <<txn, faulted>>
                  ELSE IF m.err # ""
                  THEN /\ Return(c, Err("failed to mark as processing"))
                       /\ UNCHANGED <<txn, faulted>>
                  ELSE /\ txn' = [txn EXCEPT ![c] = m.t]
                       /\ pc' = [pc EXCEPT ![c] = "p_processing"]
                       /\ UNCHANGED <<result, faulted>>
    /\ UNCHANGED <<storeVars, gwVars, entVars, auditCalls, op, req, refund,
                   totalRefunded, completions>>

\* Step 3: UPDATE the transaction to processing
Process_UpdateProcessing(c) ==
    /\ op[c] \in {"process", "retry"} /\ pc[c] = "p_processing"
    /\ \E so \in StoreOutcomes :
         IF so # "ok"
         THEN /\ Return(c, Err("failed to update transaction"))
              /\ Fault(c, "store")
              /\ UNCHANGED <<transactions, completions>>
         ELSE /\ UpdateTransaction(txn[c])
              /\ pc' = [pc EXCEPT ![c] = "p_gateway"]
              /\ UNCHANGED <<result, faulted>>
    /\ UNCHANGED <<fixedVars, refunds, gwVars, entVars, auditCalls, op, req, txn, refund,
                   totalRefunded>>

\* Steps 4-5: PaymentGateway.ProcessPayment, then MarkAsFailed or
\* MarkAsCompleted in memory
Process_Gateway(c) ==
    /\ op[c] \in {"process", "retry"} /\ pc[c] = "p_gateway"
    /\ gwPayments' = gwPayments + 1
    /\ \/ \E providerTxnID \in ProviderIds :
            LET m == TxnMarkAsCompleted(txn[c], providerTxnID) IN
            /\ gwPaid' = gwPaid + 1
            /\ IF m.err # ""
               THEN /\ Return(c, Err("failed to mark as completed"))
                    /\ UNCHANGED txn
               ELSE /\ txn' = [txn EXCEPT ![c] = m.t]
                    /\ pc' = [pc EXCEPT ![c] = "p_completed"]
                    /\ UNCHANGED result
            /\ UNCHANGED faulted
       \/ \E e \in GatewayErrors :
            LET m == TxnMarkAsFailed(txn[c], "PAYMENT_FAILED", e) IN
            /\ txn' = [txn EXCEPT ![c] = m.t]
            /\ pc' = [pc EXCEPT ![c] = "p_failed"]
            /\ Fault(c, "gateway")
            /\ UNCHANGED <<gwPaid, result>>
    /\ UNCHANGED <<storeVars, gwRefunded, entVars, auditCalls, op, req, refund,
                   totalRefunded, completions>>

\* the failure path returning without the UPDATE
Process_UpdateFailed_NotPersisted(c) ==
    /\ op[c] \in {"process", "retry"} /\ pc[c] = "p_failed"
    /\ LogAction(c)
    /\ Return(c, Err("payment processing failed"))
    /\ UNCHANGED <<storeVars, gwVars, entVars, op, req, txn, refund,
                   totalRefunded, faulted, completions>>

\* Step 4, gateway failed: UPDATE the transaction to failed (the error of
\* the update is dropped), audit log, return the gateway's error
Process_UpdateFailed(c) ==
    /\ op[c] \in {"process", "retry"} /\ pc[c] = "p_failed"
    /\ \E so \in StoreOutcomes :
         IF so # "ok"
         THEN /\ Fault(c, "store") /\ UNCHANGED <<transactions, completions>>
         ELSE /\ UpdateTransaction(txn[c]) /\ UNCHANGED faulted
    /\ LogAction(c)
    /\ Return(c, Err("payment processing failed"))
    /\ UNCHANGED <<fixedVars, refunds, gwVars, entVars, op, req, txn, refund,
                   totalRefunded>>

\* steps 5-6 with the error of LogAction returned to the caller
Process_UpdateCompleted_AuditChecked(c) ==
    /\ op[c] \in {"process", "retry"} /\ pc[c] = "p_completed"
    /\ UpdateTransaction(txn[c])
    /\ \E o \in AuditOutcomes :
         /\ auditCalls' = [auditCalls EXCEPT ![c] = Append(@, o)]
         /\ IF o = "error"
            THEN Return(c, Err("failed to log audit event"))
            ELSE Return(c, Ok(txn[c].id))
    /\ UNCHANGED <<fixedVars, refunds, gwVars, entVars, op, req, txn, refund,
                   totalRefunded, faulted>>

\* Step 5: UPDATE the transaction to completed; steps 6-7 audit log, webhook
Process_UpdateCompleted(c) ==
    /\ op[c] \in {"process", "retry"} /\ pc[c] = "p_completed"
    /\ \E so \in StoreOutcomes :
         IF so # "ok"
         THEN /\ Return(c, Err("failed to update transaction"))
              /\ Fault(c, "store")
              /\ UNCHANGED <<transactions, completions, auditCalls>>
         ELSE /\ UpdateTransaction(txn[c])
              /\ LogAction(c)
              /\ Return(c, Ok(txn[c].id))
              /\ UNCHANGED faulted
    /\ UNCHANGED <<fixedVars, refunds, gwVars, entVars, op, req, txn, refund,
                   totalRefunded>>

ProcessStep(c) ==
    \/ Process_GetTransaction(c)
    \/ Process_UpdateProcessing(c)
    \/ Process_Gateway(c)
    \/ Process_UpdateFailed(c)
    \/ Process_UpdateCompleted(c)

----------------------------------------------------------------------------
(* RetryFailedPaymentUseCase.Execute *)

\* load the transaction, CanRetry, IncrementRetryCount in memory
Retry_GetTransaction(c) ==
    /\ op[c] = "retry" /\ pc[c] = "rt_get"
    /\ \E so \in StoreOutcomes :
         IF so # "ok"
         THEN /\ Return(c, Err("failed to get transaction"))
              /\ Fault(c, "store") /\ UNCHANGED txn
         ELSE IF req[c].transactionId \notin DOMAIN transactions
         THEN /\ Return(c, Err("ErrTransactionNotFound"))
              /\ UNCHANGED <<txn, faulted>>
         ELSE LET t == transactions[req[c].transactionId]
                  m == IncrementRetryCount(t)
              IN  IF ~CanRetry(t)
                  THEN /\ Return(c, Err("max_retries_exceeded"))
                       /\ UNCHANGED <<txn, faulted>>
                  ELSE IF m.err # ""
                  THEN /\ Return(c, Err("failed to increment retry count"))
                       /\ UNCHANGED <<txn, faulted>>
                  ELSE /\ txn' = [txn EXCEPT ![c] = m.t]
                       /\ pc' = [pc EXCEPT ![c] = "rt_update"]
                       /\ UNCHANGED <<result, faulted>>
    /\ UNCHANGED <<storeVars, gwVars, entVars, auditCalls, op, req, refund,
                   totalRefunded, completions>>

\* UPDATE the transaction with the new retry count, audit log, then
\* ProcessPaymentUseCase.Execute on the same id
Retry_Update(c) ==
    /\ op[c] = "retry" /\ pc[c] = "rt_update"
    /\ \E so \in StoreOutcomes :
         IF so # "ok"
         THEN /\ Return(c, Err("failed to update transaction"))
              /\ Fault(c, "store")
              /\ UNCHANGED <<transactions, completions, auditCalls>>
         ELSE /\ UpdateTransaction(txn[c])
              /\ LogAction(c)
              /\ pc' = [pc EXCEPT ![c] = "p_get"]
              /\ UNCHANGED <<result, faulted>>
    /\ UNCHANGED <<fixedVars, refunds, gwVars, entVars, op, req, txn, refund,
                   totalRefunded>>

RetryStep(c) ==
    \/ Retry_GetTransaction(c)
    \/ Retry_Update(c)

----------------------------------------------------------------------------
(* Direct calls on a Transaction entity (the domain layer's own contract,  *)
(* as its unit tests exercise it).  The entity is private to the caller of *)
(* these methods and shares nothing with the requests, so the calls are    *)
(* taken once the requests have returned.                                  *)

NoCall == [method |-> "", err |-> ""]

EntityCallable == \A c \in Callers : pc[c] = "done"

Entity_MarkAsProcessing ==
    /\ EntityCallable
    /\ LET m == TxnMarkAsProcessing(ent) IN
       /\ ent' = m.t
       /\ entErr' = [method |-> "MarkAsProcessing", err |-> m.err]
    /\ UNCHANGED <<storeVars, gwVars, auditCalls, moneyVars, op, pc, req, txn, refund,
                   totalRefunded, result, faulted, completions>>

Entity_MarkAsCompleted ==
    /\ EntityCallable
    /\ \E providerID \in ProviderIds :
         LET m == TxnMarkAsCompleted(ent, providerID) IN
         /\ ent' = m.t
         /\ entErr' = [method |-> "MarkAsCompleted", err |-> m.err]
    /\ UNCHANGED <<storeVars, gwVars, auditCalls, moneyVars, op, pc, req, txn, refund,
                   totalRefunded, result, faulted, completions>>

Entity_MarkAsFailed ==
    /\ EntityCallable
    /\ \E e \in GatewayErrors :
         LET m == TxnMarkAsFailed(ent, "PAYMENT_FAILED", e) IN
         /\ ent' = m.t
         /\ entErr' = [method |-> "MarkAsFailed", err |-> m.err]
    /\ UNCHANGED <<storeVars, gwVars, auditCalls, moneyVars, op, pc, req, txn, refund,
                   totalRefunded, result, faulted, completions>>

EntityStep ==
    \/ Entity_MarkAsProcessing
    \/ Entity_MarkAsCompleted
    \/ Entity_MarkAsFailed

\* the methods of a Refund entity called directly on the refund a caller
\* holds (as a unit test does); entErr keeps the method and what it returned
RefundEntity_MarkAsProcessing(c) ==
    /\ op[c] = "entity"
    /\ LET m == RefundMarkAsProcessing(refund[c]) IN
       /\ refund' = [refund EXCEPT ![c] = m.r]
       /\ entErr' = [method |-> "Refund.MarkAsProcessing", err |-> m.err]
    /\ UNCHANGED <<storeVars, gwVars, auditCalls, moneyVars, ent, op, pc, req, txn,
                   totalRefunded, result, faulted, completions>>

RefundEntity_MarkAsCompleted(c) ==
    /\ op[c] = "entity"
    /\ \E providerRefundID \in ProviderIds :
         LET m == RefundMarkAsCompleted(refund[c], providerRefundID) IN
         /\ refund' = [refund EXCEPT ![c] = m.r]
         /\ entErr' = [method |-> "Refund.MarkAsCompleted", err |-> m.err]
    /\ UNCHANGED <<storeVars, gwVars, auditCalls, moneyVars, ent, op, pc, req, txn,
                   totalRefunded, result, faulted, completions>>

RefundEntity_MarkAsFailed(c) ==
    /\ op[c] = "entity"
    /\ \E e \in GatewayErrors :
         LET m == RefundMarkAsFailed(refund[c], "REFUND_FAILED", e) IN
         /\ refund' = [refund EXCEPT ![c] = m.r]
         /\ entErr' = [method |-> "Refund.MarkAsFailed", err |-> m.err]
    /\ UNCHANGED <<storeVars, gwVars, auditCalls, moneyVars, ent, op, pc, req, txn,
                   totalRefunded, result, faulted, completions>>

RefundEntityStep(c) ==
    \/ RefundEntity_MarkAsProcessing(c)
    \/ RefundEntity_MarkAsCompleted(c)
    \/ RefundEntity_MarkAsFailed(c)

\* direct calls on Money (as money_test.go makes them): NewMoney on the raw
\* input, and Add on the operands a, b, c in both orders and both groupings
NotCalled == [err |-> "not_called", m |-> NoMoney]

AddExpressions == {"a+b", "b+a", "(a+b)+c", "a+(b+c)"}

Money_New ==
    /\ moneyOut' = [moneyOut EXCEPT
                       !["NewMoney"] =
                           NewMoney(moneyArgs.amount, moneyArgs.currency)]
    /\ UNCHANGED <<storeVars, gwVars, auditCalls, ent, entErr, moneyArgs, op,
                   pc, req, txn, refund, totalRefunded, result, faulted,
                   completions>>

Money_Add(e) ==
    /\ LET a == moneyArgs.operands[1]
           b == moneyArgs.operands[2]
           c == moneyArgs.operands[3]
       IN  moneyOut' = [moneyOut EXCEPT
                          ![e] = CASE e = "a+b" -> MoneyAdd(a, b)
                                   [] e = "b+a" -> MoneyAdd(b, a)
                                   [] e = "(a+b)+c" ->
                                        MoneyAddTo(MoneyAdd(a, b), c)
                                   [] e = "a+(b+c)" ->
                                        MoneyAddOnto(a, MoneyAdd(b, c))]
    /\ UNCHANGED <<storeVars, gwVars, auditCalls, ent, entErr, moneyArgs, op,
                   pc, req, txn, refund, totalRefunded, result, faulted,
                   completions>>

MoneyStep ==
    \/ Money_New
    \/ \E e \in AddExpressions : Money_Add(e)

\* direct calls of Subtract, IsGreaterThan and Equals on the operands a, b.
\* IsGreaterThan and Equals return a bool and nothing else: err stays empty
\* and answer is the bool.
CompareCalls == {"a-b", "a>b", "a=b"}

BoolAnswer(b) == [err |-> "", m |-> NoMoney, answer |-> b]

Money_Subtract ==
    /\ moneyOut["a-b"] = NotCalled
    /\ moneyOut' = [moneyOut EXCEPT
                       !["a-b"] = MoneySubtract(moneyArgs.operands[1],
                                                moneyArgs.operands[2])]
    /\ UNCHANGED <<storeVars, gwVars, auditCalls, ent, entErr, moneyArgs, op,
                   pc, req, txn, refund, totalRefunded, result, faulted,
                   completions>>

Money_IsGreaterThan ==
    /\ moneyOut["a>b"] = NotCalled
    /\ \E greater \in IsGreaterThanOutcomes(moneyArgs.operands[1],
                                             moneyArgs.operands[2]) :
         moneyOut' = [moneyOut EXCEPT !["a>b"] = BoolAnswer(greater)]
    /\ UNCHANGED <<storeVars, gwVars, auditCalls, ent, entErr, moneyArgs, op,
                   pc, req, txn, refund, totalRefunded, result, faulted,
                   completions>>

Money_Equals ==
    /\ moneyOut["a=b"] = NotCalled
    /\ moneyOut' = [moneyOut EXCEPT
                       !["a=b"] =
                           BoolAnswer(MoneyEquals(moneyArgs.operands[1],
                                                  moneyArgs.operands[2]))]
    /\ UNCHANGED <<storeVars, gwVars, auditCalls, ent, entErr, moneyArgs, op,
                   pc, req, txn, refund, totalRefunded, result, faulted,
                   completions>>

MoneyCompareStep ==
    \/ Money_Subtract
    \/ Money_IsGreaterThan
    \/ Money_Equals

----------------------------------------------------------------------------
(* Initial states *)

\* a transaction of the seed data (seed-tx-1001), in the given status
SeedTransaction(status) ==
    [NewTransaction(SeedTxnId, "p1", "seed-tx-1001", 10000, "USD")
        EXCEPT !.status = status,
               !.providerTransactionId =
                   IF status = "completed" THEN "prov-seed" ELSE "",
               !.errorMessage =
                   IF status = "failed" THEN "Insufficient funds" ELSE ""]

\* inputs of money_test.go: amounts around the limits, the currencies of the
\* allow-list, an unknown one and the empty one
MoneyInputAmounts ==
    {-10000, -1, 0, 1, 2, 10000, 50000, 9999999, 10000000, 10000001}

MoneyInputCurrencies == ActiveCurrencies \cup {"XXX", ""}

MoneyOperands ==
    {NewMoney(a, cur).m :
        a \in {1, 5000, 10000, 5000000, 9999999, 10000000},
        cur \in {"USD", "EUR"}}

NoMoneyArgs ==
    [amount |-> 10000, currency |-> "USD",
     operands |-> <<NewMoney(10000, "USD").m, NewMoney(5000, "USD").m,
                    NewMoney(3000, "USD").m>>,
     checked |-> FALSE]

NoMoneyOut == [e \in AddExpressions \cup {"NewMoney"} |-> NotCalled]

InitCallers ==
    /\ txn = [c \in Callers |-> NoTransaction]
    /\ refund = [c \in Callers |-> NoRefund]
    /\ totalRefunded = [c \in Callers |-> 0]
    /\ result = [c \in Callers |-> NoResult]
    /\ faulted = [c \in Callers |-> {}]
    /\ gwPayments = 0 /\ gwPaid = 0 /\ gwRefunded = 0
    /\ completions = 0
    /\ auditCalls = [c \in Callers |-> <<>>]
    /\ ent = NewTransaction(SeedTxnId, "p1", "unit-test", 10000, "USD")
    /\ entErr = NoCall
    /\ moneyArgs = NoMoneyArgs
    /\ moneyOut = NoMoneyOut

\* no request has come before the initial ones
InitSession ==
    /\ calls = 0
    /\ retriesAccepted = transactions[SeedTxnId].retryCount
    /\ atBegin = [transactions |-> transactions, refunds |-> refunds]

InitPartners ==
    partners = [p \in Partners |-> [isActive |-> (p = "p1")]]

RefundAmounts == {4000, 6000, 10000}

RefundRequests ==
    {[NoRequest EXCEPT !.transactionId = SeedTxnId, !.partnerId = "p1",
                       !.amount = a, !.currency = "USD",
                       !.reason = "requested_by_customer"] :
        a \in RefundAmounts}

\* concurrent refund requests on the completed seed transaction
InitRefund ==
    /\ InitPartners /\ InitCallers
    /\ seedStatus = "completed"
    /\ transactions = (SeedTxnId :> SeedTransaction(seedStatus))
    /\ refunds = [i \in {} |-> NoRefund]
    /\ op = [c \in Callers |-> "refund"]
    /\ pc = [c \in Callers |-> "r_get"]
    /\ req \in [Callers -> RefundRequests]
    /\ storeFaults = TRUE
    /\ auditLogger = "nil"
    /\ InitSession

NextRefund == \E c \in Callers : RefundStep(c)

SpecRefund == InitRefund /\ [][NextRefund]_vars

CreateAmounts == {0, 10000, 25000}

CreateRequests ==
    {[NoRequest EXCEPT !.partnerId = p, !.idempotencyKey = k,
                       !.amount = a, !.currency = "USD"] :
        p \in Partners, k \in {"seed-tx-1001", "order-1"},
        a \in CreateAmounts}

\* concurrent create requests; the store holds the seed transaction
InitCreate ==
    /\ InitPartners /\ InitCallers
    /\ seedStatus = "completed"
    /\ transactions = (SeedTxnId :> SeedTransaction(seedStatus))
    /\ refunds = [i \in {} |-> NoRefund]
    /\ op = [c \in Callers |-> "create"]
    /\ pc = [c \in Callers |-> "c_partner"]
    /\ req \in [Callers -> CreateRequests]
    /\ storeFaults = TRUE
    /\ auditLogger = "nil"
    /\ InitSession

NextCreate == \E c \in Callers : CreateStep(c)

SpecCreate == InitCreate /\ [][NextCreate]_vars

LifecycleRequest == [NoRequest EXCEPT !.transactionId = SeedTxnId]

\* concurrent process and retry requests on the seed transaction, which is
\* pending, failed or completed
InitProcess ==
    /\ InitPartners /\ InitCallers
    /\ seedStatus \in {"pending", "failed", "completed"}
    /\ transactions = (SeedTxnId :> SeedTransaction(seedStatus))
    /\ refunds = [i \in {} |-> NoRefund]
    /\ op \in [Callers -> {"process", "retry"}]
    /\ pc = [c \in Callers |-> IF op[c] = "retry" THEN "rt_get" ELSE "p_get"]
    /\ req = [c \in Callers |-> LifecycleRequest]
    /\ storeFaults = TRUE
    /\ auditLogger = "nil"
    /\ InitSession

NextProcess ==
    \/ \E c \in Callers : ProcessStep(c)
    \/ \E c \in Callers : RetryStep(c)

SpecProcess == InitProcess /\ [][NextProcess]_vars

\* concurrent process requests, and direct calls on a Transaction entity
InitGuard ==
    /\ InitPartners /\ InitCallers
    /\ seedStatus \in {"pending", "failed", "completed"}
    /\ transactions = (SeedTxnId :> SeedTransaction(seedStatus))
    /\ refunds = [i \in {} |-> NoRefund]
    /\ op = [c \in Callers |-> "process"]
    /\ pc = [c \in Callers |-> "p_get"]
    /\ req = [c \in Callers |-> LifecycleRequest]
    /\ storeFaults = TRUE
    /\ auditLogger = "nil"
    /\ InitSession

NextGuard ==
    \/ \E c \in Callers : ProcessStep(c)
    \/ EntityStep

SpecGuard == InitGuard /\ [][NextGuard]_vars

\* concurrent process, retry and refund requests on the seed transaction
Init ==
    /\ InitPartners /\ InitCallers
    /\ seedStatus \in {"pending", "failed", "completed"}
    /\ transactions = (SeedTxnId :> SeedTransaction(seedStatus))
    /\ refunds = [i \in {} |-> NoRefund]
    /\ op \in [Callers -> {"process", "retry", "refund"}]
    /\ pc = [c \in Callers |->
               CASE op[c] = "retry" -> "rt_get"
                 [] op[c] = "refund" -> "r_get"
                 [] OTHER -> "p_get"]
    /\ \E rr \in [Callers -> RefundRequests] :
         req = [c \in Callers |->
                  IF op[c] = "refund" THEN rr[c] ELSE LifecycleRequest]
    /\ storeFaults = TRUE
    /\ auditLogger = "nil"
    /\ InitSession

Next ==
    \/ \E c \in Callers : ProcessStep(c)
    \/ \E c \in Callers : RetryStep(c)
    \/ \E c \in Callers : RefundStep(c)

Spec == Init /\ [][Next]_vars

----------------------------------------------------------------------------
(* Callers issuing one request after another *)

MaxCalls == 3

EntryPoint(o) ==
    CASE o = "retry" -> "rt_get"
      [] o = "refund" -> "r_get"
      [] o = "create" -> "c_partner"
      [] OTHER -> "p_get"

\* caller c, whose previous request (if any) has returned, calls Execute of
\* use case o with input r
Begin(c, o, r) ==
    /\ pc[c] \in {"idle", "done"}
    /\ calls < MaxCalls
    /\ calls' = calls + 1
    /\ retriesAccepted' =
         IF op[c] = "retry" /\ txn[c] # NoTransaction
         THEN retriesAccepted + 1 ELSE retriesAccepted
    /\ atBegin' = [transactions |-> transactions, refunds |-> refunds]
    /\ op' = [op EXCEPT ![c] = o]
    /\ req' = [req EXCEPT ![c] = r]
    /\ pc' = [pc EXCEPT ![c] = EntryPoint(o)]
    /\ txn' = [txn EXCEPT ![c] = NoTransaction]
    /\ refund' = [refund EXCEPT ![c] = NoRefund]
    /\ totalRefunded' = [totalRefunded EXCEPT ![c] = 0]
    /\ result' = [result EXCEPT ![c] = NoResult]
    /\ auditCalls' = [auditCalls EXCEPT ![c] = <<>>]
    /\ UNCHANGED <<partners, seedStatus, storeFaults, auditLogger,
                   transactions, refunds, gwVars, entVars, faulted,
                   completions>>

InFlight(c) == pc[c] \notin {"idle", "done"}

\* requests executed one after another: nobody is inside Execute, and the
\* callers take turns
SeqTurn(c) ==
    /\ \A d \in Callers : ~InFlight(d)
    /\ c = (calls % NumCallers) + 1

InitIdle ==
    /\ InitPartners /\ InitCallers
    /\ op = [c \in Callers |-> "idle"]
    /\ pc = [c \in Callers |-> "idle"]
    /\ req = [c \in Callers |-> NoRequest]
    /\ storeFaults = FALSE

SeqRefundAmounts == {3000, 4000, 7000, 10000, 12000}

SeqRefundRequests ==
    {[NoRequest EXCEPT !.transactionId = SeedTxnId, !.partnerId = "p1",
                       !.amount = a, !.currency = "USD",
                       !.reason = "requested_by_customer"] :
        a \in SeqRefundAmounts}

\* refund requests on the completed seed transaction, one after another
InitSequential ==
    /\ InitIdle
    /\ seedStatus = "completed"
    /\ transactions = (SeedTxnId :> SeedTransaction(seedStatus))
    /\ refunds = [i \in {} |-> NoRefund]
    /\ auditLogger = "nil"
    /\ InitSession

BeginSequentialRefund(c) ==
    \E r \in SeqRefundRequests : SeqTurn(c) /\ Begin(c, "refund", r)

NextSequential ==
    \/ \E c \in Callers : BeginSequentialRefund(c)
    \/ \E c \in Callers : RefundStep(c)

SpecSequential == InitSequential /\ [][NextSequential]_vars

SeedRetryCounts == {0, 2}

\* retry requests on the failed seed transaction, concurrent or one after
\* another, the transaction having been retried before or not
InitRetry ==
    /\ InitIdle
    /\ seedStatus = "failed"
    /\ \E n \in SeedRetryCounts :
         transactions =
             (SeedTxnId :> [SeedTransaction(seedStatus) EXCEPT !.retryCount = n])
    /\ refunds = [i \in {} |-> NoRefund]
    /\ auditLogger = "nil"
    /\ InitSession

BeginRetry(c) == Begin(c, "retry", LifecycleRequest)

NextRetry ==
    \/ \E c \in Callers : BeginRetry(c)
    \/ \E c \in Callers : RetryStep(c)
    \/ \E c \in Callers : ProcessStep(c)

SpecRetry == InitRetry /\ [][NextRetry]_vars

\* process and retry requests on the seed transaction, one after another:
\* the first is a process request, and the next begins once the one before
\* has returned.  The seed transaction is pending, or failed and retried
\* before or not.
InitReprocess ==
    /\ InitPartners /\ InitCallers
    /\ seedStatus \in {"pending", "failed"}
    /\ \E n \in SeedRetryCounts :
         transactions =
             (SeedTxnId :> [SeedTransaction(seedStatus) EXCEPT
                               !.retryCount =
                                   IF seedStatus = "failed" THEN n ELSE 0])
    /\ refunds = [i \in {} |-> NoRefund]
    /\ op = [c \in Callers |-> IF c = NumCallers THEN "process" ELSE "idle"]
    /\ pc = [c \in Callers |-> IF c = NumCallers THEN "p_get" ELSE "idle"]
    /\ req = [c \in Callers |->
                IF c = NumCallers THEN LifecycleRequest ELSE NoRequest]
    /\ storeFaults = FALSE
    /\ auditLogger = "nil"
    /\ InitSession

BeginReprocess(c) ==
    /\ SeqTurn(c)
    /\ \E o \in {"process", "retry"} : Begin(c, o, LifecycleRequest)

NextReprocess ==
    \/ \E c \in Callers : BeginReprocess(c)
    \/ \E c \in Callers : ProcessStep(c)
    \/ \E c \in Callers : RetryStep(c)

SpecReprocess == InitReprocess /\ [][NextReprocess]_vars

\* seconds since creation and since completion of the seed transaction when
\* the requests arrive: created and completed just now, at the edge of the
\* window, one second past it, or created past it and completed inside it
SeedAges ==
    {[createdAge |-> a[1], completedAge |-> a[2]] :
        a \in {<<0, 0>>,
               <<RefundWindowSeconds, RefundWindowSeconds>>,
               <<RefundWindowSeconds + 1, RefundWindowSeconds>>,
               <<RefundWindowSeconds + 1, RefundWindowSeconds + 1>>,
               <<RefundWindowSeconds + 1, 0>>}}

ValidRefundRequest ==
    [NoRequest EXCEPT !.transactionId = SeedTxnId, !.partnerId = "p1",
                      !.amount = 6000, !.currency = "USD",
                      !.reason = "requested_by_customer"]

\* the valid request, and the requests that differ from it in one field
RefundInputs ==
    {ValidRefundRequest,
     [ValidRefundRequest EXCEPT !.transactionId = SeedTxnId + 1],
     [ValidRefundRequest EXCEPT !.partnerId = "p2"],
     [ValidRefundRequest EXCEPT !.amount = 0],
     [ValidRefundRequest EXCEPT !.amount = 12000],
     [ValidRefundRequest EXCEPT !.currency = "EUR"],
     [ValidRefundRequest EXCEPT !.currency = "XXX"]}

\* concurrent refund requests, well-formed or not, on the seed transaction,
\* which is pending or completed at some time in the past
InitRefundInputs ==
    /\ InitPartners /\ InitCallers
    /\ seedStatus \in {"pending", "completed"}
    /\ \E a \in SeedAges :
         transactions =
             (SeedTxnId :> [SeedTransaction(seedStatus) EXCEPT
                               !.createdAge = a.createdAge,
                               !.completedAge = a.completedAge])
    /\ refunds = [i \in {} |-> NoRefund]
    /\ op = [c \in Callers |-> "refund"]
    /\ pc = [c \in Callers |-> "r_get"]
    /\ req \in [Callers -> RefundInputs]
    /\ storeFaults = FALSE
    /\ auditLogger = "nil"
    /\ InitSession

SpecRefundInputs == InitRefundInputs /\ [][NextRefund]_vars

\* process requests and refund requests, well-formed or not, on the pending
\* seed transaction, begun at any time: a caller begins its next request
\* once its own has returned, whatever the other callers are doing
InitLifecycle ==
    /\ InitIdle
    /\ seedStatus = "pending"
    /\ transactions = (SeedTxnId :> SeedTransaction(seedStatus))
    /\ refunds = [i \in {} |-> NoRefund]
    /\ auditLogger = "nil"
    /\ InitSession

BeginLifecycle(c) ==
    \/ Begin(c, "process", LifecycleRequest)
    \/ \E r \in RefundInputs : Begin(c, "refund", r)

NextLifecycle ==
    \/ \E c \in Callers : BeginLifecycle(c)
    \/ \E c \in Callers : ProcessStep(c)
    \/ \E c \in Callers : RefundStep(c)

SpecLifecycle == InitLifecycle /\ [][NextLifecycle]_vars

\* concurrent process, retry and refund requests on the seed transaction,
\* made by use cases built without an audit logger or with one whose
\* LogAction may fail; the store answers
InitAudit ==
    /\ InitPartners /\ InitCallers
    /\ seedStatus \in {"failed", "completed"}
    /\ transactions = (SeedTxnId :> SeedTransaction(seedStatus))
    /\ refunds = [i \in {} |-> NoRefund]
    /\ op \in [Callers -> {"process", "retry", "refund"}]
    /\ pc = [c \in Callers |->
               CASE op[c] = "retry" -> "rt_get"
                 [] op[c] = "refund" -> "r_get"
                 [] OTHER -> "p_get"]
    /\ req = [c \in Callers |->
                IF op[c] = "refund" THEN ValidRefundRequest
                ELSE LifecycleRequest]
    /\ storeFaults = FALSE
    /\ auditLogger \in {"nil", "present"}
    /\ calls = 0
    /\ retriesAccepted = transactions[SeedTxnId].retryCount
    /\ atBegin = [transactions |-> transactions, refunds |-> refunds]

SpecAudit == InitAudit /\ [][Next]_vars

\* direct calls on Money: any raw input for NewMoney, or any three valid
\* operands for Add, by an Add that re-validates the sum or does not
InitMoney ==
    /\ InitPartners
    /\ txn = [c \in Callers |-> NoTransaction]
    /\ refund = [c \in Callers |-> NoRefund]
    /\ totalRefunded = [c \in Callers |-> 0]
    /\ result = [c \in Callers |-> NoResult]
    /\ faulted = [c \in Callers |-> {}]
    /\ gwPayments = 0 /\ gwPaid = 0 /\ gwRefunded = 0
    /\ completions = 0
    /\ auditCalls = [c \in Callers |-> <<>>]
    /\ ent = NewTransaction(SeedTxnId, "p1", "unit-test", 10000, "USD")
    /\ entErr = NoCall
    /\ seedStatus = "completed"
    /\ transactions = (SeedTxnId :> SeedTransaction(seedStatus))
    /\ refunds = [i \in {} |-> NoRefund]
    /\ op = [c \in Callers |-> "entity"]
    /\ pc = [c \in Callers |-> "done"]
    /\ req = [c \in Callers |-> NoRequest]
    /\ \/ \E a \in MoneyInputAmounts, cur \in MoneyInputCurrencies :
            moneyArgs = [NoMoneyArgs EXCEPT !.amount = a, !.currency = cur]
       \/ \E x, y, z \in MoneyOperands, checked \in BOOLEAN :
            moneyArgs = [NoMoneyArgs EXCEPT !.operands = <<x, y, z>>,
                                           !.checked = checked]
    /\ moneyOut = NoMoneyOut
    /\ storeFaults = FALSE
    /\ auditLogger = "nil"
    /\ calls = 0 /\ retriesAccepted = 0
    /\ atBegin = [transactions |-> transactions, refunds |-> refunds]

SpecMoney == InitMoney /\ [][MoneyStep]_vars

NoCompareOut == [e \in CompareCalls |-> NotCalled]

\* direct calls of Subtract, IsGreaterThan and Equals: any two valid
\* operands, of one currency or of two, by a Subtract that re-validates the
\* difference or does not
InitMoneyCompare ==
    /\ InitPartners
    /\ txn = [c \in Callers |-> NoTransaction]
    /\ refund = [c \in Callers |-> NoRefund]
    /\ totalRefunded = [c \in Callers |-> 0]
    /\ result = [c \in Callers |-> NoResult]
    /\ faulted = [c \in Callers |-> {}]
    /\ gwPayments = 0 /\ gwPaid = 0 /\ gwRefunded = 0
    /\ completions = 0
    /\ auditCalls = [c \in Callers |-> <<>>]
    /\ ent = NewTransaction(SeedTxnId, "p1", "unit-test", 10000, "USD")
    /\ entErr = NoCall
    /\ seedStatus = "completed"
    /\ transactions = (SeedTxnId :> SeedTransaction(seedStatus))
    /\ refunds = [i \in {} |-> NoRefund]
    /\ op = [c \in Callers |-> "entity"]
    /\ pc = [c \in Callers |-> "done"]
    /\ req = [c \in Callers |-> NoRequest]
    /\ \E x, y \in MoneyOperands, checked \in BOOLEAN :
         moneyArgs = [NoMoneyArgs EXCEPT !.operands = <<x, y, x>>,
                                        !.checked = checked]
    /\ moneyOut = NoCompareOut
    /\ storeFaults = FALSE
    /\ auditLogger = "nil"
    /\ calls = 0 /\ retriesAccepted = 0
    /\ atBegin = [transactions |-> transactions, refunds |-> refunds]

SpecMoneyCompare == InitMoneyCompare /\ [][MoneyCompareStep]_vars

\* each caller holds a refund fresh from NewRefund and calls its methods
InitRefundEntity ==
    /\ InitPartners
    /\ txn = [c \in Callers |-> NoTransaction]
    /\ totalRefunded = [c \in Callers |-> 0]
    /\ result = [c \in Callers |-> NoResult]
    /\ faulted = [c \in Callers |-> {}]
    /\ gwPayments = 0 /\ gwPaid = 0 /\ gwRefunded = 0
    /\ completions = 0
    /\ auditCalls = [c \in Callers |-> <<>>]
    /\ ent = NewTransaction(SeedTxnId, "p1", "unit-test", 10000, "USD")
    /\ entErr = NoCall
    /\ moneyArgs = NoMoneyArgs
    /\ moneyOut = NoMoneyOut
    /\ seedStatus = "completed"
    /\ transactions = (SeedTxnId :> SeedTransaction(seedStatus))
    /\ refunds = [i \in {} |-> NoRefund]
    /\ op = [c \in Callers |-> "entity"]
    /\ pc = [c \in Callers |-> "done"]
    /\ req = [c \in Callers |-> NoRequest]
    /\ \E amounts \in [Callers -> RefundAmounts] :
         refund = [c \in Callers |->
                      NewRefund(c, SeedTxnId, amounts[c], "USD",
                                "requested_by_customer").r]
    /\ storeFaults = FALSE
    /\ auditLogger = "nil"
    /\ calls = 0 /\ retriesAccepted = 0
    /\ atBegin = [transactions |-> transactions, refunds |-> refunds]

NextRefundEntity == \E c \in Callers : RefundEntityStep(c)

SpecRefundEntity == InitRefundEntity /\ [][NextRefundEntity]_vars

\* the refund that brought a seed transaction to its refunded status
SeedRefund(amount) ==
    LET created == NewRefund(0, SeedTxnId, amount, "USD",
                             "requested_by_customer").r
        processing == RefundMarkAsProcessing(created).r
    IN  RefundMarkAsCompleted(processing, "prov-seed-refund").r

\* the refunds a seed transaction of the given status has behind it
SeedRefunds(status) ==
    IF status = "partially_refunded" THEN (0 :> SeedRefund(4000))
    ELSE IF status = "refunded" THEN (0 :> SeedRefund(10000))
    ELSE [i \in {} |-> NoRefund]

\* requests on the seed transaction by either partner, of no amount, of an
\* amount within the transaction's and of one above it, in the
\* transaction's currency, in another active one and in an unknown one
MatrixRequests ==
    {[ValidRefundRequest EXCEPT !.partnerId = p, !.amount = a,
                                !.currency = cur] :
        p \in Partners, a \in {0, 6000, 12000}, cur \in {"USD", "EUR", "XXX"}}

\* concurrent refund requests on the seed transaction in any status and of
\* any age; at most one of them is other than the valid request
InitRefundMatrix ==
    /\ InitPartners /\ InitCallers
    /\ seedStatus \in TransactionStatuses
    /\ \E a \in SeedAges :
         transactions =
             (SeedTxnId :> [SeedTransaction(seedStatus) EXCEPT
                               !.createdAge = a.createdAge,
                               !.completedAge = a.completedAge])
    /\ refunds = SeedRefunds(seedStatus)
    /\ op = [c \in Callers |-> "refund"]
    /\ pc = [c \in Callers |-> "r_get"]
    /\ req \in {r \in [Callers -> MatrixRequests \cup {ValidRefundRequest}] :
                 Cardinality({c \in Callers : r[c] # ValidRefundRequest}) <= 1}
    /\ storeFaults = FALSE
    /\ auditLogger = "nil"
    /\ InitSession

SpecRefundMatrix == InitRefundMatrix /\ [][NextRefund]_vars

----------------------------------------------------------------------------
(* Properties *)

AllDone == \A c \in Callers : pc[c] = "done"

NoFaults == \A c \in Callers : faulted[c] = {}

\* C1: in every reachable state the amounts of the transaction's refunds
\* persisted as completed sum to at most the transaction amount.
C1_CompletedRefundsWithinAmount ==
    \A t \in DOMAIN transactions :
        GetTotalRefundedAmount(refunds, t) <= transactions[t].amount

\* C2: two concurrent refund requests of 6000 on the completed transaction
\* of 10000, no dependency failing: once both have returned, exactly one has
\* its refund completed and the other got ErrRefundAmountExceeded.
C2_OneSuccessOneExceeded ==
    \A a, b \in Callers :
        ( /\ a # b
          /\ pc[a] = "done" /\ pc[b] = "done"
          /\ op[a] = "refund" /\ op[b] = "refund"
          /\ req[a].amount = 6000 /\ req[b].amount = 6000
          /\ faulted[a] = {} /\ faulted[b] = {}
          /\ \A c \in Callers \ {a, b} : pc[c] = "r_get" )
        => \/ result[a].status = "ok"
              /\ result[b] = Err("ErrRefundAmountExceeded")
           \/ result[b].status = "ok"
              /\ result[a] = Err("ErrRefundAmountExceeded")

\* C3: at most one transaction per (partnerId, idempotencyKey).
C3_UniqueIdempotencyKey ==
    \A i, j \in DOMAIN transactions :
        ( /\ transactions[i].partnerId = transactions[j].partnerId
          /\ transactions[i].idempotencyKey = transactions[j].idempotencyKey )
        => i = j

\* two callers built a transaction for one key, one insert went through and
\* the other was refused
C3_Witness ==
    \E a, b \in Callers :
        /\ a # b
        /\ req[a].partnerId = req[b].partnerId
        /\ req[a].idempotencyKey = req[b].idempotencyKey
        /\ txn[a].id = a /\ txn[b].id = b
        /\ pc[a] = "done" /\ pc[b] = "done"
        /\ faulted[a] = {} /\ faulted[b] = {}
        /\ a \in DOMAIN transactions /\ b \notin DOMAIN transactions

\* C4: two create requests with one (partnerId, idempotencyKey), valid and
\* with no dependency failing, both return the same transaction.
C4_BothCallersSameTransaction ==
    \A a, b \in Callers :
        ( /\ a # b
          /\ op[a] = "create" /\ op[b] = "create"
          /\ req[a].partnerId = req[b].partnerId
          /\ req[a].idempotencyKey = req[b].idempotencyKey
          /\ partners[req[a].partnerId].isActive
          /\ NewMoneyOk(req[a].amount, req[a].currency)
          /\ NewMoneyOk(req[b].amount, req[b].currency)
          /\ pc[a] = "done" /\ pc[b] = "done"
          /\ faulted[a] = {} /\ faulted[b] = {} )
        => /\ result[a].status = "ok" /\ result[b].status = "ok"
           /\ result[a].id = result[b].id

KeyTaken(c) ==
    \E i \in DOMAIN transactions :
        /\ transactions[i].partnerId = req[c].partnerId
        /\ transactions[i].idempotencyKey = req[c].idempotencyKey

LifecycleEdges ==
    {<<"pending", "processing">>, <<"pending", "cancelled">>,
     <<"processing", "completed">>, <<"processing", "failed">>,
     <<"failed", "processing">>, <<"completed", "partially_refunded">>,
     <<"completed", "refunded">>, <<"partially_refunded", "refunded">>}

C6_StatusFollowsLifecycle ==
    [][ \A t \in DOMAIN transactions :
          transactions'[t].status # transactions[t].status
          => <<transactions[t].status, transactions'[t].status>>
                 \in LifecycleEdges ]_vars

\* C7: Execute on a transaction that is neither pending nor failed returns
\* an error and leaves the store and the gateway alone; MarkAsCompleted on
\* an entity that is not processing returns the invalid-state-transition
\* error and leaves the entity as it was, and from processing it completes.
C7_ProcessingGuardedByState ==
    [][ /\ \A c \in Callers :
             ( /\ pc[c] = "p_get" /\ pc'[c] # "p_get"
               /\ faulted'[c] = faulted[c]
               /\ req[c].transactionId \in DOMAIN transactions
               /\ transactions[req[c].transactionId].status
                      \notin {"pending", "failed"} )
             => /\ pc'[c] = "done"
                /\ result'[c].status = "err"
                /\ transactions' = transactions
                /\ gwPayments' = gwPayments
        /\ ( /\ entErr'.method = "MarkAsCompleted"
             /\ <<ent, entErr>>' # <<ent, entErr>> )
           => IF ent.status = "processing"
              THEN entErr'.err = "" /\ ent'.status = "completed"
              ELSE entErr'.err = "invalid_state_transition" /\ ent' = ent
      ]_vars

\* a request on the completed transaction was refused, and MarkAsCompleted
\* on the pending entity was refused
C7_Witness ==
    /\ \E c \in Callers :
         /\ op[c] = "process" /\ pc[c] = "done"
         /\ result[c] = Err("invalid_state")
         /\ transactions[SeedTxnId].status = "completed"
    /\ ent.status = "pending"
    /\ entErr = [method |-> "MarkAsCompleted",
                 err |-> "invalid_state_transition"]

\* C8: concurrent process requests on the pending transaction, no dependency
\* failing: the gateway is asked to charge at most once and the persisted
\* status enters completed at most once.
C8_ProcessedAtMostOnce ==
    ( /\ seedStatus = "pending"
      /\ \A c \in Callers : op[c] = "process"
      /\ NoFaults )
    => gwPayments <= 1 /\ completions <= 1

C10_NeverLeftProcessing ==
    ( /\ \A c \in Callers : op[c] \in {"process", "retry"} /\ pc[c] = "done"
      /\ \E c \in Callers : result[c].status # "none" )
    => transactions[SeedTxnId].status # "processing"

\* retries accepted so far: those of the requests that came before, and the
\* requests now past CanRetry and IncrementRetryCount
RetriesAcceptedNow ==
    retriesAccepted
    + Cardinality({c \in Callers : op[c] = "retry" /\ txn[c] # NoTransaction})

\* C11: over any sequence or interleaving of retry requests on one
\* transaction at most 3 are accepted, retryCount never exceeds 3, and a
\* retry request that finds retryCount at 3 is rejected with
\* max_retries_exceeded without the gateway being called.
C11_RetriesBounded ==
    [][ /\ RetriesAcceptedNow' <= MaxRetries
        /\ \A t \in DOMAIN transactions' :
             transactions'[t].retryCount <= MaxRetries
        /\ \A c \in Callers :
             ( /\ pc[c] = "rt_get" /\ pc'[c] # "rt_get"
               /\ transactions[req[c].transactionId].retryCount = MaxRetries )
             => /\ pc'[c] = "done"
                /\ result'[c] = Err("max_retries_exceeded")
                /\ gwPayments' = gwPayments
      ]_vars

\* a well-formed refund request of the owner is at the head of Execute and
\* the transaction it names is completed
RefundArrives(c) ==
    /\ op[c] = "refund" /\ pc[c] = "r_get" /\ pc'[c] # "r_get"
    /\ faulted'[c] = faulted[c]
    /\ req[c].transactionId \in DOMAIN transactions
    /\ LET t == transactions[req[c].transactionId] IN
       /\ t.status = "completed"
       /\ t.partnerId = req[c].partnerId
       /\ t.currency = req[c].currency
       /\ NewMoneyOk(req[c].amount, req[c].currency)
       /\ req[c].amount <= t.amount

\* seconds since the completion of the transaction caller c asks about
CompletedAge(c) == transactions[req[c].transactionId].completedAge

WindowRejections ==
    {Err("ErrRefundNotAllowed"), Err("ErrRefundWindowExpired")}

\* C12: a refund request on a transaction completed exactly 90 days ago
\* passes the refundability and window checks; one on a transaction
\* completed 90 days and 1 second ago is rejected.
C12_WindowBoundary ==
    [][ \A c \in Callers :
          /\ ( RefundArrives(c) /\ CompletedAge(c) = RefundWindowSeconds )
             => result'[c] \notin WindowRejections
          /\ ( RefundArrives(c) /\ CompletedAge(c) = RefundWindowSeconds + 1 )
             => pc'[c] = "done" /\ result'[c] \in WindowRejections
      ]_vars

\* C13: the window is measured from completion: a refund request on a
\* transaction created more than 90 days ago and completed less than 90
\* days ago is not rejected as not allowed or as outside the window.
C13_WindowFromCompletion ==
    [][ \A c \in Callers :
          ( /\ RefundArrives(c)
            /\ CompletedAge(c) < RefundWindowSeconds
            /\ transactions[req[c].transactionId].createdAge
                   > RefundWindowSeconds )
          => result'[c] \notin WindowRejections
      ]_vars

\* the caller of the latest request
LastCaller == ((calls + NumCallers - 1) % NumCallers) + 1

\* caller c's refund request was the latest to be made, it has returned, and
\* no other request has begun since
SeqReturned(c) ==
    /\ calls >= 1 /\ c = LastCaller
    /\ op[c] = "refund" /\ pc[c] = "done"
    /\ \A d \in Callers : ~InFlight(d)

\* transaction amount minus the completed refunds, as the latest request
\* found them
RemainingAtBegin(t) ==
    atBegin.transactions[t].amount
    - GetTotalRefundedAmount(atBegin.refunds, t)

C15_StatusMatchesTotal ==
    \A c \in Callers :
        ( SeqReturned(c) /\ result[c].status = "ok" )
        => LET id == req[c].transactionId
               t == transactions[id]
               total == GetTotalRefundedAmount(refunds, id)
           IN  /\ t.amount - total = RemainingAtBegin(id) - req[c].amount
               /\ t.status \in {"refunded", "partially_refunded"}
               /\ t.status = "refunded" <=> total = t.amount
               /\ t.status = "partially_refunded" <=> total < t.amount

\* refund(3000) left partially_refunded with 7000 to go, and refund(7000)
\* has made the transaction refunded
C15_Witness ==
    \E c \in Callers :
        /\ SeqReturned(c) /\ result[c].status = "ok"
        /\ atBegin.transactions[SeedTxnId].status = "partially_refunded"
        /\ RemainingAtBegin(SeedTxnId) = 7000
        /\ req[c].amount = 7000
        /\ transactions[SeedTxnId].status = "refunded"
        /\ GetTotalRefundedAmount(refunds, SeedTxnId) = 10000

\* a caller has returned from a request of a positive amount by the owning
\* partner that began on a fully refunded transaction
OnFullyRefunded(c) ==
    /\ SeqReturned(c)
    /\ req[c].transactionId \in DOMAIN atBegin.transactions
    /\ LET t == atBegin.transactions[req[c].transactionId]
       IN  /\ t.status = "refunded"
           /\ GetTotalRefundedAmount(atBegin.refunds, t.id) = t.amount
           /\ req[c].partnerId = t.partnerId
           /\ req[c].amount > 0

C17_FurtherPartialRefundSucceeds ==
    \A c \in Callers :
        ( /\ SeqReturned(c) /\ NoFaults
          /\ atBegin.transactions[req[c].transactionId].status
                 = "partially_refunded"
          /\ IsRefundable(atBegin.transactions[req[c].transactionId])
          /\ req[c].amount < RemainingAtBegin(req[c].transactionId) )
        => /\ result[c].status = "ok"
           /\ RefundId(c) \in DOMAIN refunds
           /\ refunds[RefundId(c)].status = "completed"
           /\ transactions[req[c].transactionId].status = "partially_refunded"

\* C18: in every state of concurrent refund requests on one transaction in
\* which no request is still in flight (here with no dependency having
\* failed), the persisted status is refunded if and only if the completed
\* refunds sum to the transaction amount, and partially_refunded if and
\* only if that sum is positive and strictly less than the amount.
C18_StatusConsistentWhenQuiescent ==
    ( AllDone /\ NoFaults )
    => \A id \in DOMAIN transactions :
           LET t == transactions[id]
               total == GetTotalRefundedAmount(refunds, id)
           IN  /\ t.status = "refunded" <=> total = t.amount
               /\ t.status = "partially_refunded"
                  <=> (total > 0 /\ total < t.amount)

\* C19: when ProcessRefund has returned an error, the step that ends the
\* request (the store answering) leaves the refund record persisted in
\* status failed with the error code and the gateway's message, returns an
\* error to the caller and does not touch the parent transaction (no
\* earlier step of the request writes the transaction either).
C19_GatewayFailureRecorded ==
    [][ \A c \in Callers :
          ( /\ op[c] = "refund" /\ pc[c] = "r_failed" /\ pc'[c] = "done"
            /\ "store" \notin faulted'[c] )
          => /\ refund[c].id \in DOMAIN refunds'
             /\ refunds'[refund[c].id].status = "failed"
             /\ refunds'[refund[c].id].errorCode = "REFUND_FAILED"
             /\ refunds'[refund[c].id].errorMessage \in GatewayErrors
             /\ result'[c].status = "err"
             /\ transactions' = transactions ]_vars

\* what Execute returns when a validation or a business rule turns the
\* request down (steps 1-9)
RefundRejections ==
    {Err(e) : e \in {"ErrTransactionNotFound", "ErrUnauthorizedOperation",
                     "ErrRefundNotAllowed", "ErrRefundWindowExpired",
                     "invalid refund amount", "ErrRefundAmountExceeded",
                     "validation:currency"}}

\* C20: a refund request rejected by a validation or a business rule leaves
\* the persisted state unchanged: the rejecting step writes no transaction
\* and no refund and does not call the gateway, and the request has created
\* no refund record.
C20_RejectionLeavesStateUnchanged ==
    [][ \A c \in Callers :
          ( /\ op[c] = "refund" /\ pc[c] # "done" /\ pc'[c] = "done"
            /\ result'[c] \in RefundRejections )
          => /\ transactions' = transactions
             /\ refunds' = refunds
             /\ gwVars' = gwVars
             /\ RefundId(c) \notin DOMAIN refunds' ]_vars

\* a request has been turned down at step 7 because of another caller's
\* completed refund, and has left no record of its own
C20_Witness ==
    \E c \in Callers :
        /\ op[c] = "refund" /\ pc[c] = "done"
        /\ result[c] = Err("ErrRefundAmountExceeded")
        /\ req[c] = ValidRefundRequest
        /\ GetTotalRefundedAmount(refunds, SeedTxnId) = 6000
        /\ RefundId(c) \notin DOMAIN refunds

\* caller c's request on an existing transaction is answered by its first
\* step (steps 1-6 of Execute), the store answering
RefundAnswered(c) ==
    /\ op[c] = "refund" /\ pc[c] = "r_get" /\ pc'[c] # "r_get"
    /\ req[c].transactionId \in DOMAIN transactions

\* C21: a refund request whose partnerId differs from the transaction's
\* owning partner fails with ErrUnauthorizedOperation, whatever the
\* transaction's status and age and the request's amount and currency, and
\* changes neither the transactions, the refunds nor the gateway tallies.
C21_ForeignPartnerUnauthorized ==
    [][ \A c \in Callers :
          ( /\ RefundAnswered(c)
            /\ req[c].partnerId
                   # transactions[req[c].transactionId].partnerId )
          => /\ pc'[c] = "done"
             /\ result'[c] = Err("ErrUnauthorizedOperation")
             /\ transactions' = transactions
             /\ refunds' = refunds
             /\ gwVars' = gwVars ]_vars

\* the other partner's request of an amount above that of an expired,
\* fully refunded transaction, in an unknown currency, got the
\* authorization error
C21_Witness ==
    \E c \in Callers :
        /\ op[c] = "refund" /\ pc[c] = "done"
        /\ req[c].partnerId = "p2" /\ req[c].amount = 12000
        /\ req[c].currency = "XXX"
        /\ transactions[SeedTxnId].status = "refunded"
        /\ transactions[SeedTxnId].createdAge > RefundWindowSeconds
        /\ result[c] = Err("ErrUnauthorizedOperation")

C23_WindowExpiryDistinct ==
    [][ \A c \in Callers :
          ( /\ RefundAnswered(c)
            /\ LET t == transactions[req[c].transactionId]
               IN  /\ req[c].partnerId = t.partnerId
                   /\ t.status \in {"completed", "partially_refunded"}
                   /\ t.completedAge > RefundWindowSeconds
                   /\ t.createdAge > RefundWindowSeconds )
          => /\ pc'[c] = "done"
             /\ result'[c] = Err("ErrRefundWindowExpired") ]_vars

\* C24: a refund request of a valid amount in an active currency other than
\* the transaction's, by the owner of a refundable transaction inside the
\* window, is rejected with the currency-mismatch error whatever the amount
\* (also above the transaction amount) and creates no refund record; and
\* every persisted refund has the currency of its parent transaction.
C24_CurrencyMismatchRejected ==
    [][ \A c \in Callers :
          /\ ( /\ RefundAnswered(c)
               /\ LET t == transactions[req[c].transactionId]
                  IN  /\ req[c].partnerId = t.partnerId
                      /\ IsRefundable(t)
                      /\ t.createdAge <= RefundWindowSeconds
                      /\ NewMoneyOk(req[c].amount, req[c].currency)
                      /\ req[c].currency # t.currency )
             => pc'[c] = "r_total"
          /\ ( /\ op[c] = "refund" /\ pc[c] = "r_total" /\ pc'[c] # "r_total"
               /\ req[c].currency # txn[c].currency )
             => /\ result'[c] = Err("validation:currency")
                /\ refunds' = refunds
          /\ \A id \in DOMAIN refunds' :
                 refunds'[id].currency
                     = transactions'[refunds'[id].transactionId].currency
      ]_vars

\* the refund status changes the claim allows, with the method making them
RefundEdges ==
    {<<"pending", "Refund.MarkAsProcessing", "processing">>,
     <<"processing", "Refund.MarkAsCompleted", "completed">>,
     <<"processing", "Refund.MarkAsFailed", "failed">>}

\* C25: a call on a Refund entity changes it only along pending ->
\* processing (MarkAsProcessing), processing -> completed (MarkAsCompleted)
\* and processing -> failed (MarkAsFailed); a call that returns an error
\* returns invalid_state_transition and leaves the refund as it was.
C25_RefundLifecycle ==
    [][ /\ \A c \in Callers :
              refund'[c] # refund[c]
              => /\ <<refund[c].status, entErr'.method, refund'[c].status>>
                        \in RefundEdges
                 /\ entErr'.err = ""
        /\ entErr'.err # ""
           => /\ entErr'.err = "invalid_state_transition"
              /\ refund' = refund ]_vars

\* C26: whenever Execute has returned after persisting the request's refund
\* record, the persisted refund is completed or failed, never pending or
\* processing, also when a later store update or the gateway call failed.
C26_RefundEndsTerminal ==
    \A c \in Callers :
        ( /\ op[c] = "refund" /\ pc[c] = "done"
          /\ RefundId(c) \in DOMAIN refunds )
        => refunds[RefundId(c)].status \in {"completed", "failed"}

\* C27: whenever a refund request has returned with its refund persisted as
\* completed, the parent transaction's persisted status is
\* partially_refunded or refunded, also when store writes fail in the
\* middle of the refund commit.
C27_CompletedRefundMarksTransaction ==
    \A c \in Callers :
        ( /\ op[c] = "refund" /\ pc[c] = "done"
          /\ RefundId(c) \in DOMAIN refunds
          /\ refunds[RefundId(c)].status = "completed" )
        => transactions[refunds[RefundId(c)].transactionId].status
               \in {"partially_refunded", "refunded"}

\* caller c's step has passed an audit point of its request
AuditPointPassed(c) ==
    Len(auditCalls'[c]) = Len(auditCalls[c]) + 1

\* C28: for process, retry and refund the step that passes an audit point
\* gives the same result and the same persisted rows whether the audit
\* logger succeeded, failed or is absent: the failure path of process
\* returns the payment error, the success path of process returns success
\* with the caller's transaction persisted, retry goes on to process with
\* its transaction persisted, and refund returns the refund with the
\* caller's transaction persisted and the refunds untouched.
C28_AuditBestEffort ==
    [][ \A c \in Callers :
          AuditPointPassed(c)
          => /\ refunds' = refunds
             /\ CASE pc[c] = "p_failed" ->
                       /\ pc'[c] = "done"
                       /\ result'[c] = Err("payment processing failed")
                       /\ transactions' = PutRow(transactions, txn[c])
                  [] pc[c] = "p_completed" ->
                       /\ pc'[c] = "done"
                       /\ result'[c] = Ok(txn[c].id)
                       /\ transactions' = PutRow(transactions, txn[c])
                  [] pc[c] = "rt_update" ->
                       /\ pc'[c] = "p_get"
                       /\ result'[c] = result[c]
                       /\ transactions' = PutRow(transactions, txn[c])
                  [] pc[c] = "r_txn" ->
                       /\ pc'[c] = "done"
                       /\ result'[c] = Ok(refund[c].id)
                       /\ transactions' = PutRow(transactions, txn[c])
                  [] OTHER -> FALSE ]_vars

\* a retry whose two audit calls both failed has returned success with the
\* transaction completed, and a refund whose audit call failed has returned
\* its completed refund
C28_Witness ==
    \E c, d \in Callers :
        /\ op[c] = "retry" /\ pc[c] = "done"
        /\ auditCalls[c] = <<"error", "error">>
        /\ result[c].status = "ok"
        /\ op[d] = "refund" /\ pc[d] = "done"
        /\ auditCalls[d] = <<"error">>
        /\ result[d].status = "ok"
        /\ refunds[RefundId(d)].status = "completed"

C31_SubtractNeverNegative ==
    LET a == moneyArgs.operands[1]
        b == moneyArgs.operands[2]
        r == moneyOut["a-b"]
    IN  ( r # NotCalled /\ a.currency = b.currency )
        => /\ a.amount > b.amount
              => /\ r.err = ""
                 /\ r.m = [amount |-> a.amount - b.amount,
                           currency |-> a.currency]
           /\ a.amount < b.amount => r.err # "" /\ r.m = NoMoney
           /\ r.m.amount >= 0

\* Subtract of 10000 USD from 5000 USD has returned an error and no value
C31_Witness ==
    /\ moneyArgs.operands[1] = NewMoney(5000, "USD").m
    /\ moneyArgs.operands[2] = NewMoney(10000, "USD").m
    /\ moneyOut["a-b"] # NotCalled
    /\ moneyOut["a-b"].err # ""
    /\ moneyOut["a-b"].m = NoMoney

\* C32: IsGreaterThan is true exactly where the operands have one currency
\* and the first amount is strictly the greater, and on operands of two
\* currencies it yields an error.
C32_IsGreaterThanStrictSameCurrency ==
    LET a == moneyArgs.operands[1]
        b == moneyArgs.operands[2]
        r == moneyOut["a>b"]
    IN  r # NotCalled
        => IF a.currency = b.currency
           THEN r.err = "" /\ r.answer = (a.amount > b.amount)
           ELSE r.err # ""

\* C33: Equals is true if and only if the amounts are equal and the
\* currencies are equal.
C33_EqualsIffAmountAndCurrency ==
    LET a == moneyArgs.operands[1]
        b == moneyArgs.operands[2]
        r == moneyOut["a=b"]
    IN  r # NotCalled
        => /\ r.err = ""
           /\ ( a.amount # b.amount => r.answer = FALSE )
           /\ ( a.currency # b.currency => r.answer = FALSE )
           /\ ( a.amount = b.amount /\ a.currency = b.currency )
                  => r.answer = TRUE

\* Equals on 10000 USD and 10000 EUR has answered false
C33_Witness ==
    /\ moneyArgs.operands[1] = NewMoney(10000, "USD").m
    /\ moneyArgs.operands[2] = NewMoney(10000, "EUR").m
    /\ moneyOut["a=b"] = BoolAnswer(FALSE)

\* C34: over process and retry requests made one after another on one
\* transaction, the gateway is asked to charge at most 3 times beyond the
\* first attempt, each attempt beyond the first being one transition of the
\* persisted status from failed to processing.  (A seed transaction that
\* is failed has its first attempt behind it.)
C34_ReprocessingBounded ==
    gwPayments <= (IF seedStatus = "pending" THEN 1 ELSE 0) + MaxRetries

\* caller c's retry request was the latest to be made and has returned an
\* error without having reached the gateway
RetryRejected(c) ==
    /\ c = LastCaller
    /\ op[c] = "retry" /\ pc[c] = "done"
    /\ \A d \in Callers : ~InFlight(d)
    /\ result[c] \in {Err("max_retries_exceeded"), Err("invalid_state")}

\* C35: a retry request that ends in an error without a payment attempt
\* (the transaction is not failed, or the retry limit is reached) leaves the
\* persisted transaction as the request found it.
C35_RejectedRetryLeavesTransaction ==
    \A c \in Callers :
        RetryRejected(c) => transactions = atBegin.transactions

\* C36: the step in which ProcessPayment is invoked starts with the
\* transaction persisted as processing, and the step in which ProcessRefund
\* is invoked starts with the request's refund persisted as processing; a
\* request whose update to processing fails returns without a gateway call.
C36_GatewayAfterDurableProcessing ==
    [][ \A c \in Callers :
          /\ ( pc[c] = "p_gateway" /\ pc'[c] # "p_gateway" )
             => transactions[txn[c].id].status = "processing"
          /\ ( pc[c] = "r_gateway" /\ pc'[c] # "r_gateway" )
             => /\ RefundId(c) \in DOMAIN refunds
                /\ refunds[RefundId(c)].status = "processing"
          /\ ( /\ pc[c] \in {"p_processing", "r_processing"}
               /\ pc'[c] # pc[c]
               /\ faulted'[c] # faulted[c] )
             => pc'[c] = "done" /\ gwVars' = gwVars ]_vars

\* C37: in every state a persisted transaction in status completed has its
\* provider transaction id set and its error fields empty, a persisted
\* refund in status completed has its provider refund id and its processed
\* timestamp set and its error fields empty, and a persisted refund in
\* status failed has its error code set.
C37_TerminalRowsWellFormed ==
    /\ \A t \in DOMAIN transactions :
          transactions[t].status = "completed"
          => /\ transactions[t].providerTransactionId # ""
             /\ transactions[t].errorCode = ""
             /\ transactions[t].errorMessage = ""
    /\ \A r \in DOMAIN refunds :
          /\ refunds[r].status = "completed"
             => /\ refunds[r].providerRefundId # ""
                /\ refunds[r].processed
                /\ refunds[r].errorCode = ""
                /\ refunds[r].errorMessage = ""
          /\ refunds[r].status = "failed" => refunds[r].errorCode # ""

\* the failed seed transaction has been completed, its error message
\* cleared, and a refund of it is persisted as completed
C37_Witness ==
    /\ seedStatus = "failed"
    /\ transactions[SeedTxnId].status = "completed"
    /\ transactions[SeedTxnId].providerTransactionId = "prov-1"
    /\ transactions[SeedTxnId].errorMessage = ""
    /\ \E r \in DOMAIN refunds :
          /\ refunds[r].status = "completed"
          /\ refunds[r].processed

\* C38: every persisted refund record has an amount above zero and at most
\* the amount of its transaction, which exists; and the step that creates a
\* refund record finds the transaction persisted as completed or
\* partially_refunded and owned by the partner that made the request.
C38_RefundRecordsSound ==
    [][ \A r \in DOMAIN refunds' :
          LET row == refunds'[r] IN
          /\ row.amount > 0
          /\ row.transactionId \in DOMAIN transactions
          /\ row.amount <= transactions[row.transactionId].amount
          /\ r \notin DOMAIN refunds
             => /\ transactions[row.transactionId].status
                       \in {"completed", "partially_refunded"}
                /\ \E c \in Callers :
                      /\ pc[c] = "r_create" /\ refund[c].id = r
                      /\ req[c].partnerId
                             = transactions[row.transactionId].partnerId
      ]_vars

\* C39: under any interleaving of refund requests on the transaction, the
\* amounts of the refunds that ProcessRefund accepted sum to at most the
\* transaction amount.
C39_GatewayRefundsWithinAmount ==
    gwRefunded <= transactions[SeedTxnId].amount

\* C40: the persisted retryCount changes only in the step in which a retry
\* request persists its increment, and then by exactly one; the steps of
\* ProcessPaymentUseCase.Execute, on success and on failure alike, leave it
\* as it was.
C40_RetryCountOnlyByRetry ==
    [][ \A c \in Callers :
          /\ ( /\ pc[c] \in {"p_get", "p_processing", "p_gateway",
                               "p_failed", "p_completed"}
               /\ pc'[c] # pc[c] )
             => \A t \in DOMAIN transactions :
                    transactions'[t].retryCount = transactions[t].retryCount
          /\ ( /\ pc[c] = "rt_update" /\ pc'[c] = "p_get" )
             => transactions'[txn[c].id].retryCount
                    = transactions[txn[c].id].retryCount + 1 ]_vars

====
